---- MODULE Spec2Model ----
(***************************************************************************)
(* A model of flamelens: the flamegraph data model (flame.rs), the view    *)
(* state engine (state.rs, view.rs), the command handlers (handler.rs,     *)
(* app.rs) and the live update pipeline (app.rs, lib.rs, py_spy.rs).       *)
(*                                                                         *)
(* Text is a sequence of one-character strings; byte offsets are 0-based   *)
(* as in the source.  Option<T> is <<>> (None) or <<x>> (Some(x)).  An f64 *)
(* is an exact fraction, or one of the two special values the code can     *)
(* produce by dividing by a zero count (inf, NaN); rounding is not         *)
(* modelled.  Counts stay far below 2^64.                                  *)
(***************************************************************************)
EXTENDS Integers, Sequences, FiniteSets, TLC

VARIABLES
    flamegraph,         \* FlameGraphView.flamegraph
    state,              \* FlameGraphView.state (FlameGraphState)
    input_buffer,       \* App.input_buffer: Option of the typed text
    transient_message,  \* App.transient_message: Option of a text
    running,            \* App.running
    next_flamegraph,    \* the parsed-tree slot the foreground takes from
    mode,               \* how the program was started: "file", "pid", "stream"; "parse"
                        \* and "view" when one operation is applied on its own
    pc,                 \* position of the foreground loop
    pyspy_data,         \* with_pid: the sampler -> parser slot
    parser,             \* the parser thread: its position and locals
    parse_chan,         \* run_from_live_stream: the foreground -> parser channel
    rx,                 \* run_from_live_stream: the caller -> foreground channel
    accumulated_stacks, \* run_from_live_stream: accumulated collapsed lines
    has_new_data,       \* run_from_live_stream: local flag of the loop
    parse_input,        \* argument of from_string under SpecParse
    parse_output,       \* result of from_string under SpecParse, of the operation
                        \* applied under SpecView
    sampler_state,      \* with_pid: Option of the sampler's shared status
    hist,               \* history: what the last step did
    live                \* history of the live pipeline: delivery and swap counters

vars == <<flamegraph, state, input_buffer, transient_message, running,
          next_flamegraph, mode, pc, pyspy_data, parser, parse_chan, rx,
          accumulated_stacks, has_new_data, parse_input, parse_output, sampler_state,
          hist, live>>

----------------------------------------------------------------------------
(* Option, sequences, text *)

None == <<>>
Some(x) == <<x>>
IsSome(o) == o # <<>>
Unwrap(o) == o[1]

Min(S) == CHOOSE x \in S : \A y \in S : x <= y
Max(S) == CHOOSE x \in S : \A y \in S : x >= y

Reverse(s) == [i \in 1..Len(s) |-> s[Len(s) + 1 - i]]

RECURSIVE SumSeq(_)
SumSeq(s) == IF s = <<>> THEN 0 ELSE s[1] + SumSeq(Tail(s))

Contains(s, x) == \E i \in 1..Len(s) : s[i] = x

\* s[a..b] of the source: the offsets a (inclusive) to b (exclusive), 0-based
Slice(s, a, b) == SubSeq(s, a + 1, b)

\* the ascending 0-based offsets at which c occurs in s
RECURSIVE CharIndicesFrom(_, _, _)
CharIndicesFrom(s, c, i) ==
    IF i > Len(s) THEN <<>>
    ELSE IF s[i] = c THEN <<i - 1>> \o CharIndicesFrom(s, c, i + 1)
    ELSE CharIndicesFrom(s, c, i + 1)

CharIndices(s, c) == CharIndicesFrom(s, c, 1)

StartsWith(s, c) == Len(s) > 0 /\ s[1] = c

\* str::rsplit_once(' '): split at the last occurrence of c
RSplitOnce(s, c) ==
    LET at == {i \in 1..Len(s) : s[i] = c}
    IN IF at = {} THEN None
       ELSE Some(<<SubSeq(s, 1, Max(at) - 1), SubSeq(s, Max(at) + 1, Len(s))>>)

Digits == {"0", "1", "2", "3", "4", "5", "6", "7", "8", "9"}

DigitVal(c) ==
    CASE c = "0" -> 0 [] c = "1" -> 1 [] c = "2" -> 2 [] c = "3" -> 3
      [] c = "4" -> 4 [] c = "5" -> 5 [] c = "6" -> 6 [] c = "7" -> 7
      [] c = "8" -> 8 [] c = "9" -> 9

RECURSIVE DecimalValue(_)
DecimalValue(s) ==
    IF s = <<>> THEN 0
    ELSE 10 * DecimalValue(SubSeq(s, 1, Len(s) - 1)) + DigitVal(s[Len(s)])

\* str::parse::<u64>(): an optional '+', then one or more decimal digits
ParseU64(s) ==
    LET body == IF StartsWith(s, "+") THEN Tail(s) ELSE s
    IN IF body # <<>> /\ \A i \in 1..Len(body) : body[i] \in Digits
       THEN Some(DecimalValue(body))
       ELSE None

----------------------------------------------------------------------------
(* f64 arithmetic on the values the code computes *)

RECURSIVE GCD(_, _)
GCD(a, b) == IF b = 0 THEN a ELSE GCD(b, a % b)

NaN == [k |-> "nan", n |-> 0, d |-> 1]
Inf == [k |-> "inf", n |-> 0, d |-> 1]
Fin(n, d) == LET g == GCD(n, d) IN [k |-> "fin", n |-> n \div g, d |-> d \div g]

\* (a as f64) / (b as f64) for unsigned a, b
FDiv(a, b) ==
    IF b = 0 THEN (IF a = 0 THEN NaN ELSE Inf) ELSE Fin(a, b)

FMul(x, y) ==
    IF x.k = "nan" \/ y.k = "nan" THEN NaN
    ELSE IF x.k = "inf" THEN (IF y.k = "fin" /\ y.n = 0 THEN NaN ELSE Inf)
    ELSE IF y.k = "inf" THEN (IF x.n = 0 THEN NaN ELSE Inf)
    ELSE Fin(x.n * y.n, x.d * y.d)

FFromInt(a) == Fin(a, 1)

\* x >= 1.0
FGeOne(x) == x.k = "inf" \/ (x.k = "fin" /\ x.n >= x.d)

----------------------------------------------------------------------------
(* flame.rs: the flamegraph data model *)

ROOT == <<"a", "l", "l">>
ROOT_ID == 0

\* Vec<StackInfo> is indexed from 0
get_stack(fg, stack_id) ==
    IF stack_id >= 0 /\ stack_id < Len(fg.stacks) THEN Some(fg.stacks[stack_id + 1])
    ELSE None

StackAt(stacks, stack_id) == stacks[stack_id + 1]

NewStackInfo(id, line_index, start_index, end_index, parent, level) ==
    [id |-> id, line_index |-> line_index, start_index |-> start_index,
     end_index |-> end_index, total_count |-> 0, self_count |-> 0,
     parent |-> parent, children |-> <<>>, level |-> level,
     width_factor |-> Fin(0, 1), hit |-> FALSE]

\* a slip: every traversed frame is counted as the leaf
update_one_all_self(stacks, content, count, line_index, start_index, end_index, parent_id, level, is_self) ==
    LET short_name == Slice(content, start_index, end_index)
        parent_stack == StackAt(stacks, parent_id)
        found == {i \in 1..Len(parent_stack.children) :
                    LET child == StackAt(stacks, parent_stack.children[i])
                    IN Slice(content, child.start_index, child.end_index) = short_name}
        exists == found # {}
        stack_id == IF exists THEN parent_stack.children[Min(found)] ELSE Len(stacks)
        pushed == IF exists THEN stacks
                  ELSE LET withNew == Append(stacks,
                               NewStackInfo(Len(stacks), line_index, start_index,
                                            end_index, Some(parent_id), level))
                       IN [withNew EXCEPT ![parent_id + 1].children =
                               Append(@, stack_id)]
        counted == [pushed EXCEPT
                      ![stack_id + 1].total_count = @ + count,
                      ![stack_id + 1].self_count = @ + count]
    IN [stacks |-> counted, stack_id |-> stack_id]

update_one(stacks, content, count, line_index, start_index, end_index, parent_id, level, is_self) ==
    LET short_name == Slice(content, start_index, end_index)
        parent_stack == StackAt(stacks, parent_id)
        found == {i \in 1..Len(parent_stack.children) :
                    LET child == StackAt(stacks, parent_stack.children[i])
                    IN Slice(content, child.start_index, child.end_index) = short_name}
        exists == found # {}
        stack_id == IF exists THEN parent_stack.children[Min(found)] ELSE Len(stacks)
        pushed == IF exists THEN stacks
                  ELSE LET withNew == Append(stacks,
                               NewStackInfo(Len(stacks), line_index, start_index,
                                            end_index, Some(parent_id), level))
                       IN [withNew EXCEPT ![parent_id + 1].children =
                               Append(@, stack_id)]
        counted == [pushed EXCEPT
                      ![stack_id + 1].total_count = @ + count,
                      ![stack_id + 1].self_count = IF is_self THEN @ + count ELSE @]
    IN [stacks |-> counted, stack_id |-> stack_id]

\* the loop over the ';' of one accepted line (flame.rs 109-128)
RECURSIVE WalkDelims(_, _, _, _, _, _, _, _, _)
WalkDelims(stacks, content, count, last_line_index, delims, k, parent_id, level, last_delim_index) ==
    IF k > Len(delims)
    THEN [stacks |-> stacks, parent_id |-> parent_id, level |-> level,
          last_delim_index |-> last_delim_index]
    ELSE LET r == update_one(stacks, content, count, last_line_index,
                             last_line_index + last_delim_index,
                             last_line_index + delims[k], parent_id, level, FALSE)
         IN WalkDelims(r.stacks, content, count, last_line_index, delims, k + 1,
                       r.stack_id, level + 1, delims[k] + 1)

\* the match on rsplit_once (flame.rs 88-98)
LineAndCount(line) ==
    LET sp == RSplitOnce(line, " ")
    IN IF ~IsSome(sp) THEN None
       ELSE LET parsed_count == ParseU64(Unwrap(sp)[2])
            IN IF Unwrap(sp)[1] = <<>> \/ ~IsSome(parsed_count) THEN None
               ELSE Some(<<Unwrap(sp)[1], Unwrap(parsed_count)>>)

\* a slip: the '#' test is forgotten
LineSkippedKeepsHash(line) == ~IsSome(LineAndCount(line))

\* the test that skips a line (flame.rs 99)
LineSkipped(line) == ~IsSome(LineAndCount(line)) \/ StartsWith(line, "#")

\* the body of the loop over the lines (flame.rs 86-140)
ParseLine(stacks, content, last_line_index, line_index) ==
    LET line == Slice(content, last_line_index, line_index)
    IN IF LineSkipped(line) THEN stacks
       ELSE LET path == Unwrap(LineAndCount(line))[1]
                count == Unwrap(LineAndCount(line))[2]
                rooted == [stacks EXCEPT ![ROOT_ID + 1].total_count = @ + count]
                w == WalkDelims(rooted, content, count, last_line_index,
                                CharIndices(path, ";"), 1, ROOT_ID, 1, 0)
            IN update_one(w.stacks, content, count, last_line_index,
                          last_line_index + w.last_delim_index,
                          last_line_index + Len(path), w.parent_id, w.level,
                          TRUE).stacks

RECURSIVE ParseLines(_, _, _, _, _)
ParseLines(stacks, content, newlines, k, last_line_index) ==
    IF k > Len(newlines) THEN stacks
    ELSE ParseLines(ParseLine(stacks, content, last_line_index, newlines[k]),
                    content, newlines, k + 1, newlines[k] + 1)

\* slice::sort_by_key: a stable sort, ascending; key maps an element to its key
RECURSIVE InsertByKey(_, _, _)
InsertByKey(sorted, x, key) ==
    IF sorted = <<>> THEN <<x>>
    ELSE IF key[sorted[Len(sorted)]] <= key[x] THEN Append(sorted, x)
    ELSE Append(InsertByKey(SubSeq(sorted, 1, Len(sorted) - 1), x, key),
                sorted[Len(sorted)])

RECURSIVE SortByKeyFrom(_, _, _, _)
SortByKeyFrom(s, k, acc, key) ==
    IF k > Len(s) THEN acc
    ELSE SortByKeyFrom(s, k + 1, InsertByKey(acc, s[k], key), key)

SortByKey(s, key) == SortByKeyFrom(s, 1, <<>>, key)

\* the key of the two sorts by total_count (flame.rs 233-238, view.rs 79)
TotalCountKey(stacks) == [id \in 0..(Len(stacks) - 1) |-> StackAt(stacks, id).total_count]

\* the children as populate_levels leaves them (flame.rs 230-243)
SortedChildren(fg, stack_id) ==
    IF fg.sorted
    THEN Reverse(SortByKey(StackAt(fg.stacks, stack_id).children,
                           TotalCountKey(fg.stacks)))
    ELSE StackAt(fg.stacks, stack_id).children

\* flame.rs 219-228
WidthFactor(total_count, parent) ==
    IF IsSome(parent)
    THEN FMul(Unwrap(parent)[2], FDiv(total_count, Unwrap(parent)[1]))
    ELSE Fin(1, 1)

RECURSIVE populate_levels(_, _, _, _)
RECURSIVE PopulateChildren(_, _, _, _, _)
populate_levels(fg, stack_id, level, parent) ==
    LET levels1 == IF Len(fg.levels) <= level THEN Append(fg.levels, <<>>)
                   ELSE fg.levels
        levels2 == [levels1 EXCEPT ![level + 1] = Append(@, stack_id)]
        total_count == StackAt(fg.stacks, stack_id).total_count
        width_factor == WidthFactor(total_count, parent)
        children == SortedChildren(fg, stack_id)
        fg1 == [fg EXCEPT !.levels = levels2,
                          !.stacks[stack_id + 1].width_factor = width_factor,
                          !.stacks[stack_id + 1].children = children]
    IN PopulateChildren(fg1, children, 1, level + 1, Some(<<total_count, width_factor>>))

PopulateChildren(fg, children, k, level, parent) ==
    IF k > Len(children) THEN fg
    ELSE PopulateChildren(populate_levels(fg, children[k], level, parent),
                          children, k + 1, level, parent)

from_string(content0, sorted) ==
    LET content == IF content0 = <<>> \/ content0[Len(content0)] # "\n"
                   THEN Append(content0, "\n") ELSE content0
        root == NewStackInfo(ROOT_ID, 0, 0, 0, None, 0)
        stacks == ParseLines(<<root>>, content, CharIndices(content, "\n"), 1, 0)
        out == [data |-> content, stacks |-> stacks, levels |-> <<>>,
                hits |-> None, sorted |-> sorted]
    IN populate_levels(out, ROOT_ID, 0, None)

get_stack_short_name_from_info(fg, stack) ==
    IF stack.id = ROOT_ID THEN ROOT
    ELSE Slice(fg.data, stack.start_index, stack.end_index)

get_stack_short_name(fg, stack_id) ==
    IF IsSome(get_stack(fg, stack_id))
    THEN Some(get_stack_short_name_from_info(fg, Unwrap(get_stack(fg, stack_id))))
    ELSE None

get_stack_full_name_from_info(fg, stack) ==
    IF stack.id = ROOT_ID THEN ROOT
    ELSE Slice(fg.data, stack.line_index, stack.end_index)

get_stack_by_full_name(fg, full_name) ==
    LET found == {i \in 1..Len(fg.stacks) :
                    get_stack_full_name_from_info(fg, fg.stacks[i]) = full_name}
    IN IF found = {} THEN None ELSE Some(fg.stacks[Min(found)])

get_stacks_at_level(fg, level) ==
    IF level >= 0 /\ level < Len(fg.levels) THEN Some(fg.levels[level + 1]) ELSE None

total_count(fg) == StackAt(fg.stacks, ROOT_ID).total_count

get_num_levels(fg) == Len(fg.levels)

RECURSIVE get_ancestors_from(_, _)
get_ancestors_from(fg, current_id) ==
    IF ~IsSome(get_stack(fg, current_id)) THEN <<>>
    ELSE LET stack == Unwrap(get_stack(fg, current_id))
         IN IF IsSome(stack.parent)
            THEN <<current_id>> \o get_ancestors_from(fg, Unwrap(stack.parent))
            ELSE <<current_id>>

get_ancestors(fg, stack_id) == get_ancestors_from(fg, stack_id)

\* the work list of get_descendants: pop the last id, push its children
RECURSIVE DescendantsLoop(_, _, _)
DescendantsLoop(fg, stack_ids, descendants) ==
    IF stack_ids = <<>> THEN descendants
    ELSE LET stack_id == stack_ids[Len(stack_ids)]
             rest == SubSeq(stack_ids, 1, Len(stack_ids) - 1)
         IN DescendantsLoop(fg,
                IF IsSome(get_stack(fg, stack_id))
                THEN rest \o Unwrap(get_stack(fg, stack_id)).children ELSE rest,
                Append(descendants, stack_id))

get_descendants(fg, stack_id) == DescendantsLoop(fg, <<stack_id>>, <<>>)

----------------------------------------------------------------------------
(* flame.rs: SearchPattern and hits.  The regex crate is modelled on the   *)
(* syntax the model's patterns use: literals, '\' escapes, '.', '^', '$';  *)
(* an unescaped '(' that is never closed does not compile.                 *)

RegexMeta == {"\\", ".", "+", "*", "?", "(", ")", "|", "[", "]", "{", "}",
              "^", "$", "#", "&", "-", "~"}

\* regex::escape
RECURSIVE regex_escape(_)
regex_escape(text) ==
    IF text = <<>> THEN <<>>
    ELSE (IF text[1] \in RegexMeta THEN <<"\\", text[1]>> ELSE <<text[1]>>)
         \o regex_escape(Tail(text))

\* the items of a pattern: <<"lit", c>>, <<"any">>, <<"start">>, <<"end">>,
\* or <<"open">> for an unescaped '('
RECURSIVE RegexItems(_)
RegexItems(src) ==
    IF src = <<>> THEN <<>>
    ELSE IF src[1] = "\\"
         THEN (IF Len(src) >= 2 THEN <<<<"lit", src[2]>>>> \o RegexItems(SubSeq(src, 3, Len(src)))
               ELSE <<<<"open">>>>)
    ELSE IF src[1] = "." THEN <<<<"any">>>> \o RegexItems(Tail(src))
    ELSE IF src[1] = "^" THEN <<<<"start">>>> \o RegexItems(Tail(src))
    ELSE IF src[1] = "$" THEN <<<<"end">>>> \o RegexItems(Tail(src))
    ELSE IF src[1] = "(" THEN <<<<"open">>>> \o RegexItems(Tail(src))
    ELSE <<<<"lit", src[1]>>>> \o RegexItems(Tail(src))

\* regex::Regex::new: Some(compiled) or None for a syntax error
Regex_new(src) ==
    IF \E i \in 1..Len(RegexItems(src)) : RegexItems(src)[i][1] = "open" THEN None
    ELSE Some(RegexItems(src))

RECURSIVE RegexMatchAt(_, _, _, _)
RegexMatchAt(re, k, text, pos) ==
    IF k > Len(re) THEN TRUE
    ELSE IF re[k][1] = "start" THEN pos = 0 /\ RegexMatchAt(re, k + 1, text, pos)
    ELSE IF re[k][1] = "end" THEN pos = Len(text) /\ RegexMatchAt(re, k + 1, text, pos)
    ELSE IF re[k][1] = "any"
         THEN pos < Len(text) /\ text[pos + 1] # "\n"
              /\ RegexMatchAt(re, k + 1, text, pos + 1)
    ELSE pos < Len(text) /\ text[pos + 1] = re[k][2]
         /\ RegexMatchAt(re, k + 1, text, pos + 1)

\* Regex::is_match: a match anywhere in the text
is_match(re, text) == \E pos \in 0..Len(text) : RegexMatchAt(re, 1, text, pos)

\* SearchPattern::new: Some(pattern) for Ok, None for Err
SearchPattern_new(pattern, is_regex, is_manual) ==
    LET src == IF is_regex THEN pattern ELSE <<"^">> \o regex_escape(pattern) \o <<"$">>
    IN IF IsSome(Regex_new(src))
       THEN Some([pattern |-> pattern, is_regex |-> is_regex,
                  re |-> Unwrap(Regex_new(src)), is_manual |-> is_manual])
       ELSE None

\* a slip: a hit stack is counted and its children are visited as well
RECURSIVE count_hit_coverage_through_hits(_, _)
count_hit_coverage_through_hits(fg, stack_id) ==
    LET stack == StackAt(fg.stacks, stack_id)
    IN (IF stack.hit THEN stack.total_count ELSE 0)
       + SumSeq([i \in 1..Len(stack.children) |->
                    count_hit_coverage_through_hits(fg, stack.children[i])])

RECURSIVE count_hit_coverage(_, _)
count_hit_coverage(fg, stack_id) ==
    LET stack == StackAt(fg.stacks, stack_id)
    IN IF stack.hit THEN stack.total_count
       ELSE SumSeq([i \in 1..Len(stack.children) |->
                       count_hit_coverage(fg, stack.children[i])])

\* the ids of a Vec of ids that satisfy a test, in order
RECURSIVE FilterSeq(_, _)
FilterSeq(s, keep) ==
    IF s = <<>> THEN <<>>
    ELSE (IF s[1] \in keep THEN <<s[1]>> ELSE <<>>) \o FilterSeq(Tail(s), keep)

RECURSIVE Flatten(_)
Flatten(ss) == IF ss = <<>> THEN <<>> ELSE ss[1] \o Flatten(Tail(ss))

collect_hit_ids(fg) ==
    FilterSeq(Flatten(fg.levels),
              {id \in 0..(Len(fg.stacks) - 1) : StackAt(fg.stacks, id).hit})

set_hits(fg, p) ==
    LET flagged == [fg EXCEPT !.stacks = [i \in 1..Len(fg.stacks) |->
                       [fg.stacks[i] EXCEPT !.hit =
                           is_match(p.re, Slice(fg.data, fg.stacks[i].start_index,
                                                fg.stacks[i].end_index))]]]
    IN [flagged EXCEPT !.hits = Some([coverage_count |-> count_hit_coverage(flagged, ROOT_ID),
                                      ids |-> collect_hit_ids(flagged)])]

clear_hits(fg) ==
    [fg EXCEPT !.stacks = [i \in 1..Len(fg.stacks) |-> [fg.stacks[i] EXCEPT !.hit = FALSE]],
               !.hits = None]

----------------------------------------------------------------------------
(* state.rs: FlameGraphState *)

DefaultState ==
    [selected |-> ROOT_ID, level_offset |-> 0, frame_height |-> None,
     frame_width |-> None, zoom |-> None, search_pattern |-> None,
     freeze |-> FALSE, view_kind |-> "FlameGraph",
     table_state |-> [selected |-> 0, offset |-> 0]]

is_ancestor_or_descendant(zoom, stack_id) ==
    Contains(zoom.ancestors, stack_id) \/ Contains(zoom.descendants, stack_id)

toggle_freeze(st) == [st EXCEPT !.freeze = ~@]

toggle_view_kind(st) ==
    [st EXCEPT !.view_kind = IF @ = "FlameGraph" THEN "Table" ELSE "FlameGraph"]

\* a slip: the old index is carried over
get_new_stack_id_stale(stack_id, old, new) ==
    IF IsSome(get_stack(old, stack_id)) THEN Some(stack_id) ELSE None

get_new_stack_id(stack_id, old, new) ==
    IF IsSome(get_stack(old, stack_id))
    THEN LET found == get_stack_by_full_name(new,
                          get_stack_full_name_from_info(old, Unwrap(get_stack(old, stack_id))))
         IN IF IsSome(found) THEN Some(Unwrap(found).id) ELSE None
    ELSE None

\* a slip: the search pattern is not applied to the new tree
handle_flamegraph_replacement_no_hits(st, old, new) ==
    LET sel == IF st.selected # ROOT_ID
               THEN (IF IsSome(get_new_stack_id(st.selected, old, new))
                     THEN Unwrap(get_new_stack_id(st.selected, old, new))
                     ELSE ROOT_ID)
               ELSE st.selected
        zoom == IF IsSome(st.zoom)
                THEN (IF IsSome(get_new_stack_id(Unwrap(st.zoom).stack_id, old, new))
                      THEN Some([Unwrap(st.zoom) EXCEPT !.stack_id =
                                    Unwrap(get_new_stack_id(Unwrap(st.zoom).stack_id, old, new))])
                      ELSE None)
                ELSE None
    IN [state |-> [st EXCEPT !.selected = sel, !.zoom = zoom], new |-> new]

\* returns the state and the new tree, both as the call leaves them
handle_flamegraph_replacement(st, old, new) ==
    LET sel == IF st.selected # ROOT_ID
               THEN (IF IsSome(get_new_stack_id(st.selected, old, new))
                     THEN Unwrap(get_new_stack_id(st.selected, old, new))
                     ELSE ROOT_ID)
               ELSE st.selected
        zoom == IF IsSome(st.zoom)
                THEN (IF IsSome(get_new_stack_id(Unwrap(st.zoom).stack_id, old, new))
                      THEN Some([Unwrap(st.zoom) EXCEPT !.stack_id =
                                    Unwrap(get_new_stack_id(Unwrap(st.zoom).stack_id, old, new))])
                      ELSE None)
                ELSE None
    IN [state |-> [st EXCEPT !.selected = sel, !.zoom = zoom],
        new |-> IF IsSome(st.search_pattern) THEN set_hits(new, Unwrap(st.search_pattern))
                ELSE new]

----------------------------------------------------------------------------
(* view.rs: FlameGraphView, as [flamegraph, state] *)

View(fg, st) == [flamegraph |-> fg, state |-> st]

set_search_pattern(v, search_pattern) ==
    View(set_hits(v.flamegraph, search_pattern),
         [v.state EXCEPT !.search_pattern = Some(search_pattern)])

unset_search_pattern(v) ==
    View(clear_hits(v.flamegraph), [v.state EXCEPT !.search_pattern = None])

\* a slip: an automatic pattern is removed as well
unset_manual_search_pattern_or_auto(v) == unset_search_pattern(v)

unset_manual_search_pattern(v) ==
    IF IsSome(v.state.search_pattern) /\ Unwrap(v.state.search_pattern).is_manual
    THEN unset_search_pattern(v)
    ELSE v

\* a slip: the automatic pattern is installed over a manual one
select_id_over_manual(v, stack_id) ==
    LET v1 == View(v.flamegraph, [v.state EXCEPT !.selected = stack_id])
        pattern == get_stack_short_name(v.flamegraph, stack_id)
    IN IF IsSome(pattern)
       THEN set_search_pattern(v1, Unwrap(SearchPattern_new(Unwrap(pattern), FALSE, FALSE)))
       ELSE v1

select_id(v, stack_id) ==
    LET v1 == View(v.flamegraph, [v.state EXCEPT !.selected = stack_id])
        pattern == get_stack_short_name(v.flamegraph, stack_id)
    IN IF IsSome(v.state.search_pattern) /\ Unwrap(v.state.search_pattern).is_manual
       THEN v1
       ELSE IF IsSome(pattern)
       THEN set_search_pattern(v1, Unwrap(SearchPattern_new(Unwrap(pattern), FALSE, FALSE)))
       ELSE v1

set_level_offset(v, level_offset) ==
    LET frame_height == IF IsSome(v.state.frame_height) THEN Unwrap(v.state.frame_height)
                        ELSE 1
        diff == get_num_levels(v.flamegraph) - frame_height
        max_level_offset == IF diff < 0 THEN 0 ELSE diff
    IN View(v.flamegraph,
            [v.state EXCEPT !.level_offset =
                IF level_offset < max_level_offset THEN level_offset
                ELSE max_level_offset])

\* min_level + frame_height as usize - 1 (view.rs 121) is taken from 0: the
\* usize subtraction overflows
viewport_edge_underflows(st) ==
    IsSome(st.frame_height) /\ st.level_offset + Unwrap(st.frame_height) = 0

\* where overflow checks are off the edge wraps to usize::MAX, above every level
is_stack_in_view_port(v, stack) ==
    IF IsSome(v.state.frame_height)
    THEN LET min_level == v.state.level_offset
             max_level == min_level + Unwrap(v.state.frame_height) - 1
         IN IF viewport_edge_underflows(v.state) THEN min_level <= stack.level
            ELSE min_level <= stack.level /\ stack.level <= max_level
    ELSE TRUE

\* a slip: under a zoom the stacks beside the zoomed one are not left out
is_stack_visibly_wide_beside_zoom(v, stack, zoom_factor) ==
    IF IsSome(v.state.frame_width)
    THEN LET expected_frame_width ==
                 FMul(stack.width_factor, FFromInt(Unwrap(v.state.frame_width)))
         IN IF IsSome(zoom_factor)
            THEN FGeOne(FMul(expected_frame_width, Unwrap(zoom_factor)))
            ELSE IF IsSome(v.state.zoom)
            THEN FGeOne(FMul(expected_frame_width, Unwrap(v.state.zoom).zoom_factor))
            ELSE FGeOne(expected_frame_width)
    ELSE TRUE

is_stack_visibly_wide(v, stack, zoom_factor) ==
    IF IsSome(v.state.frame_width)
    THEN LET expected_frame_width ==
                 FMul(stack.width_factor, FFromInt(Unwrap(v.state.frame_width)))
         IN IF IsSome(zoom_factor)
            THEN FGeOne(FMul(expected_frame_width, Unwrap(zoom_factor)))
            ELSE IF IsSome(v.state.zoom)
            THEN LET zoom == Unwrap(v.state.zoom)
                     adjusted_frame_width == FMul(expected_frame_width, zoom.zoom_factor)
                 IN FGeOne(adjusted_frame_width)
                    /\ is_ancestor_or_descendant(zoom, stack.id)
            ELSE FGeOne(expected_frame_width)
    ELSE TRUE

\* the ids of a Vec whose stacks are visibly wide, in order
VisiblyWideOf(v, ids) ==
    FilterSeq(ids, {id \in 0..(Len(v.flamegraph.stacks) - 1) :
                      is_stack_visibly_wide(v, StackAt(v.flamegraph.stacks, id), None)})

\* a slip: the children are visited from the least total_count
to_child_stack_narrowest(v) ==
    IF IsSome(get_stack(v.flamegraph, v.state.selected))
    THEN LET stack == Unwrap(get_stack(v.flamegraph, v.state.selected))
             children_stacks == SortByKey(stack.children,
                                          TotalCountKey(v.flamegraph.stacks))
             wide == VisiblyWideOf(v, children_stacks)
         IN IF wide = <<>> THEN v
            ELSE LET child_stack == StackAt(v.flamegraph.stacks, wide[1])
                     scrolled == IF ~is_stack_in_view_port(v, child_stack)
                                 THEN View(v.flamegraph,
                                           [v.state EXCEPT !.level_offset = @ + 1])
                                 ELSE v
                 IN select_id(scrolled, child_stack.id)
    ELSE View(v.flamegraph, [v.state EXCEPT !.selected = ROOT_ID])

to_child_stack(v) ==
    IF IsSome(get_stack(v.flamegraph, v.state.selected))
    THEN LET stack == Unwrap(get_stack(v.flamegraph, v.state.selected))
             children_stacks == Reverse(SortByKey(stack.children,
                                                  TotalCountKey(v.flamegraph.stacks)))
             wide == VisiblyWideOf(v, children_stacks)
         IN IF wide = <<>> THEN v
            ELSE LET child_stack == StackAt(v.flamegraph.stacks, wide[1])
                     scrolled == IF ~is_stack_in_view_port(v, child_stack)
                                 THEN View(v.flamegraph,
                                           [v.state EXCEPT !.level_offset = @ + 1])
                                 ELSE v
                 IN select_id(scrolled, child_stack.id)
    ELSE View(v.flamegraph, [v.state EXCEPT !.selected = ROOT_ID])

\* a slip: the scroll offset is left where it is
to_parent_stack_no_scroll(v) ==
    IF IsSome(get_stack(v.flamegraph, v.state.selected))
    THEN LET parent == Unwrap(get_stack(v.flamegraph, v.state.selected)).parent
         IN IF IsSome(parent) THEN select_id(v, Unwrap(parent)) ELSE v
    ELSE View(v.flamegraph, [v.state EXCEPT !.selected = ROOT_ID])

to_parent_stack(v) ==
    IF IsSome(get_stack(v.flamegraph, v.state.selected))
    THEN LET parent == Unwrap(get_stack(v.flamegraph, v.state.selected)).parent
         IN IF IsSome(parent)
            THEN LET scrolled ==
                        IF IsSome(get_stack(v.flamegraph, Unwrap(parent)))
                           /\ ~is_stack_in_view_port(v,
                                   Unwrap(get_stack(v.flamegraph, Unwrap(parent))))
                        THEN View(v.flamegraph, [v.state EXCEPT !.level_offset = @ - 1])
                        ELSE v
                 IN select_id(scrolled, Unwrap(parent))
            ELSE v
    ELSE View(v.flamegraph, [v.state EXCEPT !.selected = ROOT_ID])

select_stack_in_view_port(v) ==
    LET stacks == get_stacks_at_level(v.flamegraph, v.state.level_offset)
    IN IF IsSome(stacks) /\ VisiblyWideOf(v, Unwrap(stacks)) # <<>>
       THEN View(v.flamegraph,
                 [v.state EXCEPT !.selected = VisiblyWideOf(v, Unwrap(stacks))[1]])
       ELSE v

keep_selected_stack_in_view_port(v) ==
    IF IsSome(get_stack(v.flamegraph, v.state.selected))
       /\ ~is_stack_in_view_port(v, Unwrap(get_stack(v.flamegraph, v.state.selected)))
    THEN select_stack_in_view_port(v)
    ELSE v

set_frame_height(v, frame_height) ==
    keep_selected_stack_in_view_port(
        View(v.flamegraph, [v.state EXCEPT !.frame_height = Some(frame_height)]))

set_frame_width(v, frame_width) ==
    View(v.flamegraph, [v.state EXCEPT !.frame_width = Some(frame_width)])

\* position of an id in a level row, 0 when absent
PositionIn(row, stack_id) ==
    LET at == {i \in 1..Len(row) : row[i] = stack_id} IN IF at = {} THEN 0 ELSE Min(at)

\* a slip: the stack after it in the row is taken, wide or not
get_next_sibling_any_width(v, stack_id) ==
    IF ~IsSome(get_stack(v.flamegraph, stack_id)) THEN None
    ELSE LET level == get_stacks_at_level(v.flamegraph,
                          Unwrap(get_stack(v.flamegraph, stack_id)).level)
         IN IF ~IsSome(level) \/ PositionIn(Unwrap(level), stack_id) = 0 THEN None
            ELSE IF PositionIn(Unwrap(level), stack_id) = Len(Unwrap(level)) THEN None
            ELSE Some(Unwrap(level)[PositionIn(Unwrap(level), stack_id) + 1])

get_next_sibling(v, stack_id) ==
    IF ~IsSome(get_stack(v.flamegraph, stack_id)) THEN None
    ELSE LET level == get_stacks_at_level(v.flamegraph,
                          Unwrap(get_stack(v.flamegraph, stack_id)).level)
         IN IF ~IsSome(level) \/ PositionIn(Unwrap(level), stack_id) = 0 THEN None
            ELSE LET row == Unwrap(level)
                     wide == VisiblyWideOf(v, SubSeq(row, PositionIn(row, stack_id) + 1,
                                                     Len(row)))
                 IN IF wide = <<>> THEN None ELSE Some(wide[1])

get_previous_sibling(v, stack_id) ==
    IF ~IsSome(get_stack(v.flamegraph, stack_id)) THEN None
    ELSE LET level == get_stacks_at_level(v.flamegraph,
                          Unwrap(get_stack(v.flamegraph, stack_id)).level)
         IN IF ~IsSome(level) \/ PositionIn(Unwrap(level), stack_id) = 0 THEN None
            ELSE LET row == Unwrap(level)
                     wide == VisiblyWideOf(v, Reverse(SubSeq(row, 1,
                                                     PositionIn(row, stack_id) - 1)))
                 IN IF wide = <<>> THEN None ELSE Some(wide[1])

get_num_visible_levels(v) ==
    LET zoom_factor == IF IsSome(v.state.zoom) THEN Unwrap(v.state.zoom).zoom_factor
                       ELSE Fin(1, 1)
        starting_stack_id == IF IsSome(v.state.zoom) THEN Unwrap(v.state.zoom).stack_id
                             ELSE ROOT_ID
        descendants == get_descendants(v.flamegraph, starting_stack_id)
        levels == {StackAt(v.flamegraph.stacks, descendants[i]).level :
                      i \in {j \in 1..Len(descendants) :
                                /\ IsSome(get_stack(v.flamegraph, descendants[j]))
                                /\ is_stack_visibly_wide(v,
                                       StackAt(v.flamegraph.stacks, descendants[j]),
                                       Some(zoom_factor))}}
    IN IF levels = {} THEN get_num_levels(v.flamegraph) ELSE Max(levels) + 1

get_bottom_level_offset(v) ==
    IF IsSome(v.state.frame_height)
    THEN LET diff == get_num_visible_levels(v) - Unwrap(v.state.frame_height)
         IN Some(IF diff < 0 THEN 0 ELSE diff)
    ELSE None

to_previous_sibling(v) ==
    IF IsSome(get_previous_sibling(v, v.state.selected))
    THEN select_id(v, Unwrap(get_previous_sibling(v, v.state.selected)))
    ELSE v

\* a slip: the next sibling is looked up and not selected
to_next_sibling_stays(v) ==
    IF IsSome(get_next_sibling(v, v.state.selected)) THEN v ELSE v

to_next_sibling(v) ==
    IF IsSome(get_next_sibling(v, v.state.selected))
    THEN select_id(v, Unwrap(get_next_sibling(v, v.state.selected)))
    ELSE v

\* the candidates after the selected stack in the given order of its level
get_next_hit_same_level(v, level_stacks) ==
    LET at == PositionIn(level_stacks, v.state.selected)
        after == IF at = 0 THEN <<>> ELSE SubSeq(level_stacks, at + 1, Len(level_stacks))
        hits == FilterSeq(after, {id \in 0..(Len(v.flamegraph.stacks) - 1) :
                                    StackAt(v.flamegraph.stacks, id).hit})
        wide == VisiblyWideOf(v, hits)
    IN IF wide = <<>> THEN None ELSE Some(wide[1])

\* a slip: only the level of the selected stack is searched
get_next_hit_in_level_only(v) ==
    IF ~IsSome(v.state.search_pattern) THEN None
    ELSE IF ~IsSome(get_stack(v.flamegraph, v.state.selected)) THEN None
    ELSE LET selected_stack == Unwrap(get_stack(v.flamegraph, v.state.selected))
             level_stacks == get_stacks_at_level(v.flamegraph, selected_stack.level)
         IN IF ~IsSome(level_stacks) THEN None
            ELSE get_next_hit_same_level(v, Unwrap(level_stacks))

get_next_hit(v) ==
    IF ~IsSome(v.state.search_pattern) THEN None
    ELSE IF ~IsSome(get_stack(v.flamegraph, v.state.selected)) THEN None
    ELSE LET selected_stack == Unwrap(get_stack(v.flamegraph, v.state.selected))
             level_stacks == get_stacks_at_level(v.flamegraph, selected_stack.level)
         IN IF ~IsSome(level_stacks) THEN None
            ELSE IF IsSome(get_next_hit_same_level(v, Unwrap(level_stacks)))
            THEN get_next_hit_same_level(v, Unwrap(level_stacks))
            ELSE IF ~IsSome(v.flamegraph.hits) THEN None
            ELSE LET below == FilterSeq(Unwrap(v.flamegraph.hits).ids,
                                  {id \in 0..(Len(v.flamegraph.stacks) - 1) :
                                      StackAt(v.flamegraph.stacks, id).level
                                          > selected_stack.level})
                     wide == VisiblyWideOf(v, below)
                 IN IF wide = <<>> THEN None ELSE Some(wide[1])

get_previous_hit(v) ==
    IF ~IsSome(v.state.search_pattern) THEN None
    ELSE IF ~IsSome(get_stack(v.flamegraph, v.state.selected)) THEN None
    ELSE LET selected_stack == Unwrap(get_stack(v.flamegraph, v.state.selected))
             level_stacks == get_stacks_at_level(v.flamegraph, selected_stack.level)
         IN IF ~IsSome(level_stacks) THEN None
            ELSE IF IsSome(get_next_hit_same_level(v, Reverse(Unwrap(level_stacks))))
            THEN get_next_hit_same_level(v, Reverse(Unwrap(level_stacks)))
            ELSE IF ~IsSome(v.flamegraph.hits) THEN None
            ELSE LET above == FilterSeq(Reverse(Unwrap(v.flamegraph.hits).ids),
                                  {id \in 0..(Len(v.flamegraph.stacks) - 1) :
                                      StackAt(v.flamegraph.stacks, id).level
                                          < selected_stack.level})
                     wide == VisiblyWideOf(v, above)
                 IN IF wide = <<>> THEN None ELSE Some(wide[1])

scroll_to_selected(v) ==
    IF IsSome(get_stack(v.flamegraph, v.state.selected))
       /\ ~is_stack_in_view_port(v, Unwrap(get_stack(v.flamegraph, v.state.selected)))
    THEN set_level_offset(v, Unwrap(get_stack(v.flamegraph, v.state.selected)).level)
    ELSE v

to_previous_search_result(v) ==
    IF IsSome(get_previous_hit(v))
    THEN scroll_to_selected(select_id(v, Unwrap(get_previous_hit(v))))
    ELSE v

to_next_search_result(v) ==
    IF IsSome(get_next_hit(v))
    THEN scroll_to_selected(select_id(v, Unwrap(get_next_hit(v))))
    ELSE v

scroll_bottom(v) ==
    IF IsSome(get_bottom_level_offset(v))
    THEN keep_selected_stack_in_view_port(
             View(v.flamegraph,
                  [v.state EXCEPT !.level_offset = Unwrap(get_bottom_level_offset(v))]))
    ELSE v

scroll_top(v) ==
    keep_selected_stack_in_view_port(
        View(v.flamegraph, [v.state EXCEPT !.level_offset = 0]))

page_down(v) ==
    IF IsSome(v.state.frame_height) /\ IsSome(get_bottom_level_offset(v))
    THEN LET target == v.state.level_offset + Unwrap(v.state.frame_height)
             bottom_offset == Unwrap(get_bottom_level_offset(v))
         IN keep_selected_stack_in_view_port(
                set_level_offset(v, IF target < bottom_offset THEN target
                                    ELSE bottom_offset))
    ELSE v

page_up(v) ==
    IF IsSome(v.state.frame_height)
    THEN LET diff == v.state.level_offset - Unwrap(v.state.frame_height)
         IN keep_selected_stack_in_view_port(
                set_level_offset(v, IF diff < 0 THEN 0 ELSE diff))
    ELSE v

\* ordered_stacks.num_rows: the ranked table has one row per distinct short
\* name of a frame
num_rows(fg) ==
    Cardinality({Slice(fg.data, fg.stacks[i].start_index, fg.stacks[i].end_index) :
                    i \in 2..Len(fg.stacks)})

\* the table cursor put on `row`
WithTableSelected(v, row) ==
    View(v.flamegraph, [v.state EXCEPT !.table_state.selected = row])

\* the table cursor and the table offset put on `row`
WithTableScrolled(v, row) ==
    View(v.flamegraph, [v.state EXCEPT !.table_state = [selected |-> row, offset |-> row]])

\* frame_height.unwrap_or(10)
TableDelta(v) ==
    IF IsSome(v.state.frame_height) THEN Unwrap(v.state.frame_height) ELSE 10

to_next_row(v) ==
    WithTableSelected(v, Min({v.state.table_state.selected + 1,
                              Max({num_rows(v.flamegraph) - 1, 0})}))

scroll_next_rows(v) ==
    WithTableScrolled(v, Min({v.state.table_state.selected + TableDelta(v),
                              Max({num_rows(v.flamegraph) - 1, 0})}))

to_previous_row(v) ==
    WithTableSelected(v, Max({v.state.table_state.selected - 1, 0}))

scroll_previous_rows(v) ==
    WithTableScrolled(v, Max({v.state.table_state.selected - TableDelta(v), 0}))

\* a slip: the selection is not moved back to the zoomed stack
unset_zoom_keeps_selection(v) ==
    View(v.flamegraph, [v.state EXCEPT !.zoom = None])

unset_zoom(v) ==
    LET restored == IF IsSome(v.state.zoom)
                    THEN select_id(v, Unwrap(v.state.zoom).stack_id)
                    ELSE v
    IN View(restored.flamegraph, [restored.state EXCEPT !.zoom = None])

\* a slip: the root is zoomed on like any other stack
set_zoom_for_id_root_too(v, stack_id) ==
    IF IsSome(get_stack(v.flamegraph, stack_id))
    THEN LET selected_stack == Unwrap(get_stack(v.flamegraph, stack_id))
         IN View(v.flamegraph,
                 [v.state EXCEPT !.zoom =
                     Some([stack_id |-> stack_id,
                           zoom_factor |-> FDiv(total_count(v.flamegraph),
                                                selected_stack.total_count),
                           ancestors |-> get_ancestors(v.flamegraph, stack_id),
                           descendants |-> get_descendants(v.flamegraph, stack_id)])])
    ELSE v

set_zoom_for_id(v, stack_id) ==
    IF IsSome(get_stack(v.flamegraph, stack_id))
    THEN LET selected_stack == Unwrap(get_stack(v.flamegraph, stack_id))
             zoom_factor == FDiv(total_count(v.flamegraph), selected_stack.total_count)
             ancestors == get_ancestors(v.flamegraph, stack_id)
             descendants == get_descendants(v.flamegraph, stack_id)
         IN IF stack_id = ROOT_ID THEN unset_zoom(v)
            ELSE View(v.flamegraph,
                      [v.state EXCEPT !.zoom =
                          Some([stack_id |-> stack_id, zoom_factor |-> zoom_factor,
                                ancestors |-> ancestors, descendants |-> descendants])])
    ELSE v

set_zoom(v) == set_zoom_for_id(v, v.state.selected)

\* a slip: the table cursor is left where it was
reset_keeps_table_state(v) ==
    unset_search_pattern(
        View(v.flamegraph,
             [v.state EXCEPT !.selected = ROOT_ID, !.level_offset = 0, !.zoom = None]))

reset(v) ==
    unset_search_pattern(
        View(v.flamegraph,
             [v.state EXCEPT !.selected = ROOT_ID, !.level_offset = 0, !.zoom = None,
                             !.table_state = [selected |-> 0, offset |-> 0]]))

\* a slip: the zoom is not set again on the new tree
replace_flamegraph_stale_zoom(v, new_flamegraph) ==
    LET r == handle_flamegraph_replacement(v.state, v.flamegraph, new_flamegraph)
    IN View(r.new, r.state)

replace_flamegraph(v, new_flamegraph) ==
    LET r == handle_flamegraph_replacement(v.state, v.flamegraph, new_flamegraph)
        replaced == View(r.new, r.state)
    IN IF IsSome(replaced.state.zoom)
       THEN set_zoom_for_id(replaced, Unwrap(replaced.state.zoom).stack_id)
       ELSE replaced

----------------------------------------------------------------------------
(* Input texts *)

\* the lines joined by '\n' (no trailing newline)
RECURSIVE JoinLines(_)
JoinLines(ls) ==
    IF ls = <<>> THEN <<>>
    ELSE IF Len(ls) = 1 THEN ls[1]
    ELSE ls[1] \o <<"\n">> \o JoinLines(Tail(ls))

SeqsUpTo(S, n) == UNION {[1..k -> S] : k \in 0..n}

MaxParseLines == 2

\* well-formed and malformed lines of collapsed-stack text
ParsePool ==
    { <<"a", " ", "1">>,
      <<"a", ";", "b", " ", "2">>,
      <<"b", " ", "1">>,
      <<"a", "l", "l", " ", "1">>,
      <<"a", " ", "b", " ", "3">>,
      <<"a", " ", "0">>,
      <<"a", " ", "+", "1">>,
      <<"#", "a", " ", "1">>,
      <<"a">>,
      <<" ", "2">>,
      <<"a", " ", "x">>,
      <<>> }

ParseTexts ==
    LET joined == {JoinLines(ls) : ls \in SeqsUpTo(ParsePool, MaxParseLines)}
    IN joined \cup {Append(t, "\n") : t \in joined}

----------------------------------------------------------------------------
(* SpecParse: from_string applied to every input text *)

ParseIdle ==
    /\ flamegraph = from_string(<<>>, TRUE)
    /\ state = None
    /\ input_buffer = None
    /\ transient_message = None
    /\ running = FALSE
    /\ next_flamegraph = None
    /\ pc = "done"
    /\ pyspy_data = None
    /\ parser = None
    /\ parse_chan = <<>>
    /\ rx = <<>>
    /\ accumulated_stacks = <<>>
    /\ has_new_data = FALSE
    /\ sampler_state = None
    /\ hist = [op |-> "init"]
    /\ live = None

InitParse ==
    /\ mode = "parse"
    /\ parse_input \in [content : ParseTexts, sorted : BOOLEAN]
    /\ parse_output = None
    /\ ParseIdle

Parse ==
    /\ mode = "parse"
    /\ parse_output = None
    /\ parse_output' = Some(from_string(parse_input.content, parse_input.sorted))
    /\ UNCHANGED <<flamegraph, state, input_buffer, transient_message, running,
                   next_flamegraph, mode, pc, pyspy_data, parser, parse_chan, rx,
                   accumulated_stacks, has_new_data, parse_input, sampler_state, hist,
                   live>>

NextParse == Parse

SpecParse == InitParse /\ [][NextParse]_vars

----------------------------------------------------------------------------
(* app.rs: App, over the current view *)

Cur == View(flamegraph, state)

\* a slip: a pattern that does not compile removes the current pattern
set_manual_search_pattern_or_unset(v, message, pattern, is_regex) ==
    IF IsSome(SearchPattern_new(pattern, is_regex, TRUE))
    THEN [view |-> set_search_pattern(v, Unwrap(SearchPattern_new(pattern, is_regex, TRUE))),
          message |-> message]
    ELSE [view |-> unset_search_pattern(v),
          message |-> Some(<<"Invalid regex: ">> \o pattern)]

\* App::set_manual_search_pattern: the view and the transient message
set_manual_search_pattern(v, message, pattern, is_regex) ==
    IF IsSome(SearchPattern_new(pattern, is_regex, TRUE))
    THEN [view |-> set_search_pattern(v, Unwrap(SearchPattern_new(pattern, is_regex, TRUE))),
          message |-> message]
    ELSE [view |-> v, message |-> Some(<<"Invalid regex: ">> \o pattern)]

\* App::search_selected
search_selected(v, message) ==
    IF v.state.selected = ROOT_ID THEN [view |-> v, message |-> message]
    ELSE IF IsSome(get_stack(v.flamegraph, v.state.selected))
    THEN set_manual_search_pattern(v, message,
             get_stack_short_name_from_info(v.flamegraph,
                 Unwrap(get_stack(v.flamegraph, v.state.selected))), FALSE)
    ELSE [view |-> v, message |-> message]

\* a slip: the sampler's status is read only when the view is not frozen
tick_panics_unless_frozen(v, sampler) ==
    ~v.state.freeze /\ IsSome(sampler) /\ Unwrap(sampler).status = "Error"

\* App::tick (159-167): the sampler's status is Error, and tick panics
tick_panics(v, sampler) == IsSome(sampler) /\ Unwrap(sampler).status = "Error"

\* App::tick (145-157): the view, the slot, and whether a tree was swapped in
tick(v, slot) ==
    IF ~v.state.freeze /\ IsSome(slot)
    THEN [view |-> replace_flamegraph(v, Unwrap(slot).flamegraph), slot |-> None,
          replaced |-> TRUE]
    ELSE [view |-> v, slot |-> slot, replaced |-> FALSE]

----------------------------------------------------------------------------
(* Spec: the foreground loop (main.rs 92-102, lib.rs 164-172) with every    *)
(* command of handler.rs; the background threads of with_pid appear as what  *)
(* the parsed-tree slot holds when a tick reads it.                         *)

MaxViewLines == 2
MaxFrameHeight == 2
MaxInputLen == 1
\* level_offset is a usize that to_child_stack can raise without limit
MaxLevelOffset == 3

ViewPool ==
    { <<"a", ";", "b", " ", "2">>,
      <<"b", " ", "1">>,
      <<"a", "l", "l", " ", "1">> }

ViewTexts == {JoinLines(ls) : ls \in SeqsUpTo(ViewPool, MaxViewLines)}

FrameHeights == 1..MaxFrameHeight
FrameWidths == {1, 4}
TypedChars == {"a"}

\* the path of a node: the names of its frames from the outermost one
RECURSIVE PathOf(_, _)
PathOf(fg, stack_id) ==
    LET stack == StackAt(fg.stacks, stack_id)
    IN IF stack_id = ROOT_ID THEN <<>>
       ELSE Append(PathOf(fg, Unwrap(stack.parent)),
                   Slice(fg.data, stack.start_index, stack.end_index))

PipelineIdle ==
    /\ pyspy_data = None
    /\ parser = None
    /\ parse_chan = <<>>
    /\ rx = <<>>
    /\ accumulated_stacks = <<>>
    /\ has_new_data = FALSE
    /\ parse_input = None
    /\ parse_output = None
    /\ sampler_state = Some([status |-> "Running"])
    /\ live = None

Init ==
    /\ mode = "pid"
    /\ flamegraph = from_string(<<>>, TRUE)
    /\ state = DefaultState
    /\ input_buffer = None
    /\ transient_message = None
    /\ running = TRUE
    /\ next_flamegraph = None
    /\ pc = "draw"
    /\ hist = [op |-> "init"]
    /\ PipelineIdle

pipeVars == <<pyspy_data, parser, parse_chan, rx, accumulated_stacks, has_new_data,
              parse_input, parse_output, sampler_state, live>>

\* ui.rs render (590-606), run by tui.draw at the top of every iteration
Draw ==
    /\ pc = "draw"
    /\ \E frame_height \in FrameHeights, frame_width \in FrameWidths :
          LET v == set_frame_width(set_frame_height(Cur, frame_height), frame_width)
          IN flamegraph' = v.flamegraph /\ state' = v.state
    /\ pc' = "event"
    /\ hist' = [op |-> "step"]
    /\ UNCHANGED <<input_buffer, transient_message, running, next_flamegraph, mode>>
    /\ UNCHANGED pipeVars

\* the end of one iteration of `while app.running`: main.rs and run_tui_loop
\* draw next, run_from_live_stream (124-141) first drains, sends and swaps
AfterEvent ==
    pc' = IF ~running' THEN "done" ELSE IF mode = "stream" THEN "drain" ELSE "draw"

\* handle_command (23-36) for a handled key that changes the view to v
Command(v) ==
    /\ pc = "event"
    /\ input_buffer = None
    /\ v.state.level_offset <= MaxLevelOffset
    /\ flamegraph' = v.flamegraph
    /\ state' = v.state
    /\ transient_message' = None
    /\ hist' = [op |-> "step"]
    /\ UNCHANGED <<input_buffer, running, next_flamegraph, mode>>
    /\ AfterEvent
    /\ UNCHANGED pipeVars

InFlameGraph == state.view_kind = "FlameGraph"

KeyQuit ==
    /\ pc = "event"
    /\ input_buffer = None
    /\ running' = FALSE
    /\ transient_message' = None
    /\ hist' = [op |-> "step"]
    /\ UNCHANGED <<flamegraph, state, input_buffer, next_flamegraph, mode>>
    /\ AfterEvent
    /\ UNCHANGED pipeVars

KeyFreeze == Command(View(flamegraph, toggle_freeze(state)))

KeySlash ==
    /\ pc = "event"
    /\ input_buffer = None
    /\ input_buffer' = Some(<<>>)
    /\ transient_message' = None
    /\ hist' = [op |-> "step"]
    /\ UNCHANGED <<flamegraph, state, running, next_flamegraph, mode>>
    /\ AfterEvent
    /\ UNCHANGED pipeVars

KeyNextSibling == InFlameGraph /\ Command(to_next_sibling(Cur))
KeyPreviousSibling == InFlameGraph /\ Command(to_previous_sibling(Cur))
KeyChild == InFlameGraph /\ Command(to_child_stack(Cur))
KeyParent == InFlameGraph /\ Command(to_parent_stack(Cur))
KeyScrollBottom == InFlameGraph /\ Command(scroll_bottom(Cur))
KeyScrollTop == InFlameGraph /\ Command(scroll_top(Cur))
KeyPageDown == InFlameGraph /\ Command(page_down(Cur))
KeyPageUp == InFlameGraph /\ Command(page_up(Cur))
KeyNextSearchResult ==
    InFlameGraph /\ Command(to_next_search_result(Cur))
KeyPreviousSearchResult ==
    InFlameGraph /\ Command(to_previous_search_result(Cur))
KeySetZoom == InFlameGraph /\ Command(set_zoom(Cur))
KeyUnsetZoom == InFlameGraph /\ Command(unset_zoom(Cur))
KeyReset == Command(reset(Cur))
KeySearchSelected ==
    InFlameGraph /\ Command(search_selected(Cur, transient_message).view)

\* handle_input_buffer (159-180)
InputEsc ==
    /\ pc = "event"
    /\ IsSome(input_buffer)
    /\ input_buffer' = None
    /\ hist' = [op |-> "step"]
    /\ UNCHANGED <<flamegraph, state, transient_message, running, next_flamegraph, mode>>
    /\ AfterEvent
    /\ UNCHANGED pipeVars

\* handle_input_buffer (165-173): Enter with `buffer` typed
input_enter(v, message, buffer) ==
    IF buffer = <<>>
    THEN [view |-> unset_manual_search_pattern(v), message |-> message]
    ELSE set_manual_search_pattern(v, message, buffer, TRUE)

\* handle_input_buffer (159-180) for Esc and Enter with `buffer` typed
handle_input_buffer(v, message, buffer, key) ==
    IF key = "Esc"
    THEN [view |-> v, message |-> message, input_buffer |-> None]
    ELSE [view |-> input_enter(v, message, buffer).view,
          message |-> input_enter(v, message, buffer).message,
          input_buffer |-> None]

InputEnter ==
    /\ pc = "event"
    /\ IsSome(input_buffer)
    /\ LET r == input_enter(Cur, transient_message, Unwrap(input_buffer))
       IN /\ flamegraph' = r.view.flamegraph
          /\ state' = r.view.state
          /\ transient_message' = r.message
    /\ input_buffer' = None
    /\ hist' = [op |-> "step"]
    /\ UNCHANGED <<running, next_flamegraph, mode>>
    /\ AfterEvent
    /\ UNCHANGED pipeVars

InputType ==
    /\ pc = "event"
    /\ IsSome(input_buffer)
    /\ Len(Unwrap(input_buffer)) < MaxInputLen
    /\ \E c \in TypedChars : input_buffer' = Some(Append(Unwrap(input_buffer), c))
    /\ hist' = [op |-> "step"]
    /\ UNCHANGED <<flamegraph, state, transient_message, running, next_flamegraph, mode>>
    /\ AfterEvent
    /\ UNCHANGED pipeVars

\* what the parsed-tree slot can hold when a tick reads it: nothing, or (with_pid
\* 82-98) the tree the parser thread built from the sampler's latest text
SlotValues ==
    {None} \cup {Some([flamegraph |-> from_string(t, TRUE)]) : t \in ViewTexts}

\* Event::Tick; the tree taken leaves the slot empty
Tick ==
    /\ pc = "event"
    /\ \E slot \in SlotValues :
          LET r == tick(Cur, slot)
          IN /\ flamegraph' = r.view.flamegraph
             /\ state' = r.view.state
             /\ hist' = IF r.replaced
                        THEN [op |-> "replace",
                              selected |-> PathOf(flamegraph, state.selected),
                              zoom |-> IF IsSome(state.zoom)
                                       THEN Some(PathOf(flamegraph,
                                                        Unwrap(state.zoom).stack_id))
                                       ELSE None]
                        ELSE [op |-> "step"]
    /\ UNCHANGED <<input_buffer, transient_message, running, next_flamegraph, mode>>
    /\ AfterEvent
    /\ UNCHANGED pipeVars

\* Event::Mouse, Event::Resize
OtherEvent ==
    /\ pc = "event"
    /\ hist' = [op |-> "step"]
    /\ UNCHANGED <<flamegraph, state, input_buffer, transient_message, running,
                   next_flamegraph, mode>>
    /\ AfterEvent
    /\ UNCHANGED pipeVars

Next ==
    \/ Draw
    \/ KeyQuit
    \/ KeyFreeze
    \/ KeySlash
    \/ KeyNextSibling
    \/ KeyPreviousSibling
    \/ KeyChild
    \/ KeyParent
    \/ KeyScrollBottom
    \/ KeyScrollTop
    \/ KeyPageDown
    \/ KeyPageUp
    \/ KeyNextSearchResult
    \/ KeyPreviousSearchResult
    \/ KeySetZoom
    \/ KeyUnsetZoom
    \/ KeyReset
    \/ KeySearchSelected
    \/ InputEsc
    \/ InputEnter
    \/ InputType
    \/ Tick
    \/ OtherEvent

Spec == Init /\ [][Next]_vars

----------------------------------------------------------------------------
(* SpecResize: the same loop with the sizes a small terminal gives: the     *)
(* main area of ui.rs (85-120) has height 0 when the header and the status *)
(* bar fill the screen.  A usize subtraction that overflows panics where   *)
(* overflow checks are on and wraps where they are off; both are followed. *)

MaxResizeHeight == 2
ResizeHeights == 0..MaxResizeHeight

\* self.state.level_offset -= 1 (view.rs 108) is run with level_offset 0
parent_step_underflows(v) ==
    /\ IsSome(get_stack(v.flamegraph, v.state.selected))
    /\ LET parent == Unwrap(get_stack(v.flamegraph, v.state.selected)).parent
       IN /\ IsSome(parent)
          /\ IsSome(get_stack(v.flamegraph, Unwrap(parent)))
          /\ ~is_stack_in_view_port(v, Unwrap(get_stack(v.flamegraph, Unwrap(parent))))
    /\ v.state.level_offset = 0

\* the thread panics at an arithmetic overflow; st is the state at that point
Overflowed(st) ==
    /\ pc' = "panicked"
    /\ state' = st
    /\ hist' = [op |-> "underflow"]
    /\ UNCHANGED <<flamegraph, input_buffer, transient_message, running,
                   next_flamegraph, mode>>
    /\ UNCHANGED pipeVars

\* the step ends with the view v; `wrapped` when a subtraction wrapped in it
Finished(v, wrapped, to) ==
    /\ v.state.level_offset <= MaxLevelOffset
    /\ flamegraph' = v.flamegraph
    /\ state' = v.state
    /\ pc' = to
    /\ hist' = [op |-> IF wrapped THEN "underflow" ELSE "step"]
    /\ UNCHANGED <<input_buffer, transient_message, running, next_flamegraph, mode>>
    /\ UNCHANGED pipeVars

\* render (ui.rs 590-606): set_frame_height tests the selected stack against
\* the viewport of the new height
DrawResized ==
    /\ pc = "draw"
    /\ \E frame_height \in ResizeHeights, frame_width \in FrameWidths :
          LET sized == [state EXCEPT !.frame_height = Some(frame_height)]
              v == set_frame_width(set_frame_height(Cur, frame_height), frame_width)
          IN IF viewport_edge_underflows(sized)
             THEN Overflowed(sized) \/ Finished(v, TRUE, "event")
             ELSE Finished(v, FALSE, "event")

\* 'j': the test of the chosen child against the viewport
ResizedChild ==
    /\ pc = "event"
    /\ IF to_child_stack(Cur) # Cur /\ viewport_edge_underflows(state)
       THEN Overflowed(state) \/ Finished(to_child_stack(Cur), TRUE, "draw")
       ELSE Finished(to_child_stack(Cur), FALSE, "draw")

\* 'k': the test of the parent against the viewport, and the step up of the
\* offset; an offset wrapped to usize::MAX is not followed
ResizedParent ==
    /\ pc = "event"
    /\ IF parent_step_underflows(Cur) THEN Overflowed(state)
       ELSE IF state.selected # ROOT_ID /\ viewport_edge_underflows(state)
       THEN Overflowed(state) \/ Finished(to_parent_stack(Cur), TRUE, "draw")
       ELSE Finished(to_parent_stack(Cur), FALSE, "draw")

\* 'g': the offset is 0 when the selected stack is tested
ResizedScrollTop ==
    /\ pc = "event"
    /\ IF viewport_edge_underflows([state EXCEPT !.level_offset = 0])
       THEN Overflowed([state EXCEPT !.level_offset = 0])
            \/ Finished(scroll_top(Cur), TRUE, "draw")
       ELSE Finished(scroll_top(Cur), FALSE, "draw")

NextResize ==
    \/ DrawResized
    \/ ResizedChild
    \/ ResizedParent
    \/ ResizedScrollTop
    \/ Tick

SpecResize == Init /\ [][NextResize]_vars

----------------------------------------------------------------------------
(* SpecTable: the same loop in the table view: Tab and the commands of     *)
(* handle_command_table (handler.rs 126-157) that move the table cursor,   *)
(* with the draws and the ticks of Spec.                                   *)

InTable == state.view_kind = "Table"

KeyTab == Command(View(flamegraph, toggle_view_kind(state)))
KeyNextRow == InTable /\ Command(to_next_row(Cur))
KeyPreviousRow == InTable /\ Command(to_previous_row(Cur))
KeyScrollNextRows == InTable /\ Command(scroll_next_rows(Cur))
KeyScrollPreviousRows == InTable /\ Command(scroll_previous_rows(Cur))

NextTable ==
    \/ Draw
    \/ KeyTab
    \/ KeyNextRow
    \/ KeyPreviousRow
    \/ KeyScrollNextRows
    \/ KeyScrollPreviousRows
    \/ KeyReset
    \/ Tick

SpecTable == Init /\ [][NextTable]_vars

----------------------------------------------------------------------------
(* Claims about from_string, checked under SpecParse *)

\* the lines of a text: the pieces between newlines; a final piece without
\* its newline is a line too
RECURSIVE TextLines(_)
TextLines(t) ==
    IF t = <<>> THEN <<>>
    ELSE LET nl == {i \in 1..Len(t) : t[i] = "\n"}
         IN IF nl = {} THEN <<t>>
            ELSE <<SubSeq(t, 1, Min(nl) - 1)>> \o TextLines(SubSeq(t, Min(nl) + 1, Len(t)))

\* position of the last space of a line, 0 when it has none
LastSpace(line) ==
    LET at == {i \in 1..Len(line) : line[i] = " "} IN IF at = {} THEN 0 ELSE Max(at)

TokenAfterLastSpace(line) == SubSeq(line, LastSpace(line) + 1, Len(line))

\* the lines the specification says are skipped
MalformedLine(line) ==
    \/ LastSpace(line) = 0
    \/ LastSpace(line) = 1
    \/ ~IsSome(ParseU64(TokenAfterLastSpace(line)))
    \/ StartsWith(line, "#")

AcceptedCounts(t) ==
    LET ls == TextLines(t)
    IN [i \in 1..Len(ls) |->
           IF MalformedLine(ls[i]) THEN 0
           ELSE Unwrap(ParseU64(TokenAfterLastSpace(ls[i])))]

RECURSIVE KeepWellFormed(_)
KeepWellFormed(ls) ==
    IF ls = <<>> THEN <<>>
    ELSE IF MalformedLine(ls[1]) THEN KeepWellFormed(Tail(ls))
    ELSE ls[1] \o <<"\n">> \o KeepWellFormed(Tail(ls))

\* the text with its malformed lines deleted
WithoutMalformedLines(t) == KeepWellFormed(TextLines(t))

ChildrenTotal(fg, stack) ==
    SumSeq([i \in 1..Len(stack.children) |->
               StackAt(fg.stacks, stack.children[i]).total_count])

\* names, structure and counts of a tree, without its byte offsets
Readable(fg) ==
    [stacks |-> [i \in 1..Len(fg.stacks) |->
                   LET st == fg.stacks[i]
                   IN [id |-> st.id,
                       short_name |-> get_stack_short_name_from_info(fg, st),
                       full_name |-> get_stack_full_name_from_info(fg, st),
                       total_count |-> st.total_count, self_count |-> st.self_count,
                       parent |-> st.parent, children |-> st.children,
                       level |-> st.level, width_factor |-> st.width_factor,
                       hit |-> st.hit]],
     levels |-> fg.levels]

\* C2: the root's total_count is the sum of the counts of the accepted lines,
\* and every node's total_count is its self_count plus its children's
\* total_count.
C2_CountConservation ==
    IsSome(parse_output) =>
        LET fg == Unwrap(parse_output)
        IN /\ total_count(fg) = SumSeq(AcceptedCounts(parse_input.content))
           /\ \A i \in 1..Len(fg.stacks) :
                 fg.stacks[i].total_count =
                     fg.stacks[i].self_count + ChildrenTotal(fg, fg.stacks[i])

\* a parsed tree in which a frame is both a leaf of one line and an inner
\* frame of another
C2_Witness ==
    /\ IsSome(parse_output)
    /\ \E i \in 2..Len(Unwrap(parse_output).stacks) :
          LET st == Unwrap(parse_output).stacks[i]
          IN st.self_count > 0 /\ st.children # <<>> /\ st.total_count > st.self_count

\* C3: the tree of a text equals the tree of the text without its malformed
\* and '#' lines.
C3_MalformedLinesSkipped ==
    IsSome(parse_output) =>
        Readable(Unwrap(parse_output)) =
            Readable(from_string(WithoutMalformedLines(parse_input.content),
                                 parse_input.sorted))

\* a text with a '#' line that would otherwise parse, and an accepted line
C3_Witness ==
    /\ IsSome(parse_output)
    /\ Len(Unwrap(parse_output).stacks) > 1
    /\ \E i \in 1..Len(TextLines(parse_input.content)) :
          LET line == TextLines(parse_input.content)[i]
          IN StartsWith(line, "#") /\ IsSome(LineAndCount(line))

----------------------------------------------------------------------------
(* Claims about the view under live tree replacement, checked under Spec *)

NodeIds(fg) == 0..(Len(fg.stacks) - 1)

\* the nodes on the parent chain of a node, the node included
RECURSIVE ChainToRoot(_, _)
ChainToRoot(fg, id) ==
    IF IsSome(StackAt(fg.stacks, id).parent)
    THEN {id} \cup ChainToRoot(fg, Unwrap(StackAt(fg.stacks, id).parent))
    ELSE {id}

Subtree(fg, id) == {n \in NodeIds(fg) : id \in ChainToRoot(fg, n)}

SeqToSet(s) == {s[i] : i \in 1..Len(s)}

\* C1: the selected node and the zoom target are nodes of the displayed tree.
C1_SelectionExists ==
    /\ state.selected \in NodeIds(flamegraph)
    /\ IsSome(state.zoom) => Unwrap(state.zoom).stack_id \in NodeIds(flamegraph)

\* a tree was swapped in while a node other than the root was selected and
\* zoomed, and the new tree has fewer nodes than the old index
C1_Witness ==
    /\ hist.op = "replace"
    /\ hist.selected # <<>>
    /\ IsSome(hist.zoom)
    /\ state.selected = ROOT_ID
    /\ ~IsSome(state.zoom)
    /\ Len(flamegraph.stacks) = 2

\* the non-root nodes of the displayed tree that have the given path
NodesAtPath(path) ==
    {n \in NodeIds(flamegraph) \ {ROOT_ID} : PathOf(flamegraph, n) = path}

\* C4: after a replacement the selected node and the zoom target are the
\* nodes of the new tree with the same path as before, or root / no zoom
\* when the new tree has no such path; for every non-root node.
C4_PathIdentity ==
    hist.op = "replace" =>
        /\ hist.selected # <<>> =>
              IF NodesAtPath(hist.selected) # {}
              THEN state.selected \in NodesAtPath(hist.selected)
              ELSE state.selected = ROOT_ID
        /\ IsSome(hist.zoom) =>
              IF NodesAtPath(Unwrap(hist.zoom)) # {}
              THEN /\ IsSome(state.zoom)
                   /\ Unwrap(state.zoom).stack_id \in NodesAtPath(Unwrap(hist.zoom))
              ELSE ~IsSome(state.zoom)

\* C4, for the nodes whose path is not the single frame "all"
C4_PathIdentityExceptAll ==
    hist.op = "replace" =>
        /\ (hist.selected # <<>> /\ hist.selected # <<ROOT>>
              /\ (IsSome(hist.zoom) => Unwrap(hist.zoom) # <<ROOT>>)) =>
              IF NodesAtPath(hist.selected) # {}
              THEN state.selected \in NodesAtPath(hist.selected)
              ELSE state.selected = ROOT_ID
        /\ (IsSome(hist.zoom) /\ Unwrap(hist.zoom) # <<ROOT>>) =>
              IF NodesAtPath(Unwrap(hist.zoom)) # {}
              THEN /\ IsSome(state.zoom)
                   /\ Unwrap(state.zoom).stack_id \in NodesAtPath(Unwrap(hist.zoom))
              ELSE ~IsSome(state.zoom)

\* C5: a stored zoom agrees with the displayed tree: its ancestors are the
\* chain from the target to the root, its descendants the target's subtree,
\* its factor total_count(root) / total_count(target).
C5_ZoomConsistent ==
    IsSome(state.zoom) =>
        LET zoom == Unwrap(state.zoom)
        IN /\ zoom.stack_id \in NodeIds(flamegraph)
           /\ SeqToSet(zoom.ancestors) = ChainToRoot(flamegraph, zoom.stack_id)
           /\ SeqToSet(zoom.descendants) = Subtree(flamegraph, zoom.stack_id)
           /\ zoom.zoom_factor =
                  FDiv(StackAt(flamegraph.stacks, ROOT_ID).total_count,
                       StackAt(flamegraph.stacks, zoom.stack_id).total_count)

\* a zoom that survived a replacement, on a target with a subtree, in a tree
\* where the target is no longer the node with its old index
C5_Witness ==
    /\ hist.op = "replace"
    /\ IsSome(hist.zoom)
    /\ IsSome(state.zoom)
    /\ Len(Unwrap(state.zoom).descendants) > 1
    /\ Unwrap(state.zoom).stack_id > 1

\* C6: with a pattern active the hit flags, hit ids and coverage are what
\* set_hits computes on the displayed tree; with none, nothing is flagged.
C6_HitsFresh ==
    IF IsSome(state.search_pattern)
    THEN flamegraph = set_hits(flamegraph, Unwrap(state.search_pattern))
    ELSE /\ ~IsSome(flamegraph.hits)
         /\ \A n \in NodeIds(flamegraph) : ~StackAt(flamegraph.stacks, n).hit

\* a tree swapped in under an active pattern that flags one of its nodes
C6_Witness ==
    /\ hist.op = "replace"
    /\ IsSome(state.search_pattern)
    /\ IsSome(flamegraph.hits)
    /\ Unwrap(flamegraph.hits).coverage_count > 0

----------------------------------------------------------------------------
(* SpecLive: the live update pipeline.  with_pid (app.rs 77-132): a sampler  *)
(* thread, a parser thread, two one-place slots, the foreground loop of     *)
(* main.rs.  run_from_live_stream (lib.rs 84-154): the caller's channel,    *)
(* the foreground loop that accumulates and forwards, a parser thread fed   *)
(* by a channel.  A static file (main.rs 60-102) has no background at all.  *)
(* Every lock or channel operation is one step.  Each payload handed to a   *)
(* parser carries its delivery number, which the parsed tree keeps.         *)

MaxPayloads == 3

LivePool ==
    { <<"a", " ", "1">>,
      <<"a", ";", "b", " ", "1">> }

\* what the caller of run_from_live_stream sends: one line, or a chunk of
\* several lines with a path twice, a line without a count and a '#' line
StreamPool ==
    { <<"a", ";", "b", " ", "1">>,
      <<"a", " ", "2", "\n", "x", "\n", "#", " ", "1", "\n", "a", " ", "1">> }

\* str::lines for text without carriage returns
RECURSIVE str_lines(_)
str_lines(t) ==
    IF t = <<>> THEN <<>>
    ELSE LET at == CharIndices(t, "\n")
         IN IF at = <<>> THEN <<t>>
            ELSE <<Slice(t, 0, at[1])>> \o str_lines(Slice(t, at[1] + 1, Len(t)))

\* the byte of a character
CharCode(c) ==
    CASE c = "\n" -> 10 [] c = " " -> 32 [] c = "#" -> 35 [] c = "(" -> 40
      [] c = "+" -> 43 [] c = "." -> 46 [] c = ";" -> 59
      [] c \in Digits -> 48 + DigitVal(c)
      [] c = "a" -> 97 [] c = "b" -> 98 [] c = "l" -> 108 [] c = "x" -> 120

\* the order of String values: byte by byte, a prefix first
RECURSIVE StrLess(_, _)
StrLess(x, y) ==
    IF y = <<>> THEN FALSE
    ELSE IF x = <<>> THEN TRUE
    ELSE IF x[1] # y[1] THEN CharCode(x[1]) < CharCode(y[1])
    ELSE StrLess(Tail(x), Tail(y))

\* Vec<String>::sort of distinct strings
RECURSIVE SortStrings(_)
SortStrings(S) ==
    IF S = {} THEN <<>>
    ELSE LET least == CHOOSE x \in S : \A y \in S \ {x} : StrLess(x, y)
         IN <<least>> \o SortStrings(S \ {least})

\* the decimal digits Display writes for a u64
RECURSIVE FormatU64(_)
FormatU64(n) ==
    LET digit == CHOOSE c \in Digits : DigitVal(c) = n % 10
    IN IF n < 10 THEN <<digit>> ELSE Append(FormatU64(n \div 10), digit)

\* the (stack, count) pairs merge_collapsed_stacks reads from lines
MergeEntries(lines) ==
    LET entry(line) ==
            LET split == RSplitOnce(line, " ")
            IN IF IsSome(split) /\ IsSome(ParseU64(Unwrap(split)[2]))
               THEN Some([stack |-> Unwrap(split)[1],
                          count |-> Unwrap(ParseU64(Unwrap(split)[2]))])
               ELSE None
    IN Flatten([i \in 1..Len(lines) |-> entry(lines[i])])

\* a slip: a path of the new chunk replaces its accumulated count
merge_collapsed_stacks_last_wins(existing, new_data) ==
    LET fresh == MergeEntries(str_lines(new_data))
        kept == MergeEntries(existing)
        entries == fresh \o FilterSeq(kept, {kept[i] : i \in {j \in 1..Len(kept) :
                                  \A k \in 1..Len(fresh) : fresh[k].stack # kept[j].stack}})
        stacks == {entries[i].stack : i \in 1..Len(entries)}
        counts == [stack \in stacks |->
                      SumSeq([i \in 1..Len(entries) |->
                                 IF entries[i].stack = stack THEN entries[i].count ELSE 0])]
    IN SortStrings({stack \o <<" ">> \o FormatU64(counts[stack]) : stack \in stacks})

\* merge_collapsed_stacks (lib.rs 179-210)
merge_collapsed_stacks(existing, new_data) ==
    LET entries == MergeEntries(existing) \o MergeEntries(str_lines(new_data))
        stacks == {entries[i].stack : i \in 1..Len(entries)}
        counts == [stack \in stacks |->
                      SumSeq([i \in 1..Len(entries) |->
                                 IF entries[i].stack = stack THEN entries[i].count ELSE 0])]
    IN SortStrings({stack \o <<" ">> \o FormatU64(counts[stack]) : stack \in stacks})

\* a slip: the value is read and left in place
option_peek(slot) == [value |-> slot, slot |-> slot]

\* Option::take under the lock (app.rs 87)
option_take(slot) == [value |-> slot, slot |-> None]

\* a slip: a tree still waiting in the slot is kept
store_parsed_if_empty(slot, parsed) == IF IsSome(slot) THEN slot ELSE Some(parsed)

\* *next_flamegraph.lock().unwrap() = Some(parsed) (app.rs 94, lib.rs 110)
store_parsed(slot, parsed) == Some(parsed)

LiveStart ==
    [produced |-> 0, delivered |-> 0, taken |-> <<>>, superseded |-> {},
     stored |-> 0, shown |-> 0, ticked |-> FALSE, swaps |-> 0, between_ticks |-> 0,
     frozen_stores |-> 0, swap_frozen_stores |-> 0, error_ticks |-> 0,
     received |-> [new_data \in StreamPool |-> 0]]

InitLive ==
    /\ mode \in {"file", "pid", "stream"}
    /\ flamegraph = IF mode = "file"
                    THEN from_string(<<"a", ";", "b", " ", "1">>, TRUE)
                    ELSE from_string(<<>>, TRUE)
    /\ state = DefaultState
    /\ input_buffer = None
    /\ transient_message = None
    /\ running = TRUE
    /\ next_flamegraph = None
    /\ pc = IF mode = "stream" THEN "drain" ELSE "draw"
    /\ hist = [op |-> "init"]
    /\ pyspy_data = None
    /\ parser = None
    /\ parse_chan = <<>>
    /\ rx = <<>>
    /\ accumulated_stacks = <<>>
    /\ has_new_data = FALSE
    /\ parse_input = None
    /\ parse_output = None
    /\ sampler_state = IF mode = "pid" THEN Some([status |-> "Running"]) ELSE None
    /\ live = LiveStart

viewVars == <<flamegraph, state, input_buffer, transient_message, running>>

\* a payload is handed to the parser: those delivered earlier that no parse has
\* started with are superseded
Delivered(l) ==
    [l EXCEPT !.delivered = @ + 1,
              !.superseded = @ \cup {n \in 1..l.delivered : ~Contains(l.taken, n)}]

\* a tree is swapped into the view
Swapped(l, parsed) ==
    [l EXCEPT !.shown = parsed.seq, !.swaps = Min({@ + 1, 2}),
              !.swap_frozen_stores = l.frozen_stores, !.frozen_stores = 0]

\* a tick event ends: between_ticks is the number of swaps since the tick before
Ticked(l) ==
    [l EXCEPT !.ticked = TRUE, !.swaps = 0,
              !.between_ticks = IF l.ticked THEN l.swaps ELSE 0]

\* a tick returned although the sampler's status was Error
Survived(l) == [l EXCEPT !.error_ticks = 1]

\* the process runs: a panic of the main thread ends it, threads included
Alive == pc # "panicked"

ReplaceNote ==
    [op |-> "replace",
     selected |-> PathOf(flamegraph, state.selected),
     zoom |-> IF IsSome(state.zoom)
              THEN Some(PathOf(flamegraph, Unwrap(state.zoom).stack_id))
              ELSE None]


\* record_samples (py_spy.rs 129-142): the sampler replaces the slot's text
SamplerDump ==
    /\ mode = "pid"
    /\ Alive
    /\ Unwrap(sampler_state).status = "Running"
    /\ live.produced < MaxPayloads
    /\ \E data \in LivePool :
          pyspy_data' = Some([data |-> data, seq |-> live.delivered + 1])
    /\ live' = [Delivered(live) EXCEPT !.produced = @ + 1]
    /\ hist' = [op |-> "deliver"]
    /\ UNCHANGED viewVars
    /\ UNCHANGED <<next_flamegraph, mode, pc, parser, parse_chan, rx,
                   accumulated_stacks, has_new_data, parse_input, parse_output, sampler_state>>

\* the sampler thread ends (app.rs 100-125): record_samples fails, as when the
\* process cannot be attached to, and the shared status becomes Error
SamplerFail ==
    /\ mode = "pid"
    /\ Alive
    /\ Unwrap(sampler_state).status = "Running"
    /\ sampler_state' = Some([status |-> "Error"])
    /\ hist' = [op |-> "fail"]
    /\ UNCHANGED viewVars
    /\ UNCHANGED <<next_flamegraph, mode, pc, pyspy_data, parser, parse_chan, rx,
                   accumulated_stacks, has_new_data, parse_input, parse_output, live>>

\* the sampler thread ends: record_samples returns after the last interval
\* (py_spy.rs 76-81), and the shared status becomes Done
SamplerExit ==
    /\ mode = "pid"
    /\ Alive
    /\ Unwrap(sampler_state).status = "Running"
    /\ sampler_state' = Some([status |-> "Done"])
    /\ hist' = [op |-> "step"]
    /\ UNCHANGED viewVars
    /\ UNCHANGED <<next_flamegraph, mode, pc, pyspy_data, parser, parse_chan, rx,
                   accumulated_stacks, has_new_data, parse_input, parse_output, live>>

\* with_pid parser thread (app.rs 86-87): take the sampler's text if there is one
ParserTake ==
    /\ mode = "pid"
    /\ Alive
    /\ parser = None
    /\ IsSome(pyspy_data)
    /\ LET r == option_take(pyspy_data)
       IN /\ parser' = Some([latest |-> Unwrap(r.value), at |-> "parse"])
          /\ pyspy_data' = r.slot
          /\ live' = [live EXCEPT !.taken = Append(@, Unwrap(r.value).seq)]
    /\ hist' = [op |-> "take"]
    /\ UNCHANGED viewVars
    /\ UNCHANGED <<next_flamegraph, mode, pc, parse_chan, rx, accumulated_stacks,
                   has_new_data, parse_input, parse_output, sampler_state>>

\* the caller of run_from_live_stream sends a chunk of collapsed lines
Produce ==
    /\ mode = "stream"
    /\ live.produced < MaxPayloads
    /\ \E new_data \in StreamPool : rx' = Append(rx, new_data)
    /\ live' = [live EXCEPT !.produced = @ + 1]
    /\ hist' = [op |-> "produce"]
    /\ UNCHANGED viewVars
    /\ UNCHANGED <<next_flamegraph, mode, pc, pyspy_data, parser, parse_chan,
                   accumulated_stacks, has_new_data, parse_input, parse_output, sampler_state>>

\* run_from_live_stream (127-130): one successful rx.try_recv of the drain loop
LoopDrain ==
    /\ pc = "drain"
    /\ rx # <<>>
    /\ accumulated_stacks' = merge_collapsed_stacks(accumulated_stacks, Head(rx))
    /\ has_new_data' = TRUE
    /\ rx' = Tail(rx)
    /\ live' = [live EXCEPT !.received[Head(rx)] = @ + 1]
    /\ hist' = [op |-> "step"]
    /\ UNCHANGED viewVars
    /\ UNCHANGED <<next_flamegraph, mode, pc, pyspy_data, parser, parse_chan,
                   parse_input, parse_output, sampler_state>>

\* run_from_live_stream (127, 133-136): rx.try_recv fails, then the accumulated
\* text is sent if this iteration received any; the flag starts false again in
\* the next iteration (126)
LoopSend ==
    /\ pc = "drain"
    /\ rx = <<>>
    /\ IF has_new_data
       THEN /\ parse_chan' = Append(parse_chan,
                                    [data |-> JoinLines(accumulated_stacks),
                                     seq |-> live.delivered + 1])
            /\ live' = Delivered(live)
       ELSE UNCHANGED <<parse_chan, live>>
    /\ has_new_data' = FALSE
    /\ pc' = "swap"
    /\ hist' = [op |-> IF has_new_data THEN "deliver" ELSE "step"]
    /\ UNCHANGED viewVars
    /\ UNCHANGED <<next_flamegraph, mode, pyspy_data, parser, rx,
                   accumulated_stacks, parse_input, parse_output, sampler_state>>

\* run_from_live_stream (139-141): take the parsed tree, if any, and swap it in
LoopSwap ==
    /\ pc = "swap"
    /\ LET r == option_take(next_flamegraph)
       IN /\ next_flamegraph' = r.slot
          /\ IF IsSome(r.value)
             THEN LET v == replace_flamegraph(Cur, Unwrap(r.value).flamegraph)
                  IN /\ flamegraph' = v.flamegraph
                     /\ state' = v.state
                     /\ live' = Swapped(live, Unwrap(r.value))
                     /\ hist' = ReplaceNote
             ELSE /\ UNCHANGED <<flamegraph, state, live>>
                  /\ hist' = [op |-> "step"]
    /\ pc' = "draw"
    /\ UNCHANGED <<input_buffer, transient_message, running>>
    /\ UNCHANGED <<mode, pyspy_data, parser, parse_chan, rx, accumulated_stacks,
                   has_new_data, parse_input, parse_output, sampler_state>>

\* run_from_live_stream parser thread (97): parse_rx.recv
ParserRecv ==
    /\ mode = "stream"
    /\ parser = None
    /\ parse_chan # <<>>
    /\ parser' = Some([latest |-> Head(parse_chan), at |-> "drain"])
    /\ parse_chan' = Tail(parse_chan)
    /\ hist' = [op |-> "step"]
    /\ UNCHANGED viewVars
    /\ UNCHANGED <<next_flamegraph, mode, pc, pyspy_data, rx, accumulated_stacks,
                   has_new_data, parse_input, parse_output, sampler_state, live>>

\* run_from_live_stream parser thread (99-102): one parse_rx.try_recv; when it
\* fails the parse of `latest` starts
ParserTryRecv ==
    /\ IsSome(parser)
    /\ Unwrap(parser).at = "drain"
    /\ IF parse_chan # <<>>
       THEN /\ parser' = Some([latest |-> Head(parse_chan), at |-> "drain"])
            /\ parse_chan' = Tail(parse_chan)
            /\ hist' = [op |-> "step"]
            /\ UNCHANGED live
       ELSE /\ parser' = Some([latest |-> Unwrap(parser).latest, at |-> "parse"])
            /\ live' = [live EXCEPT !.taken = Append(@, Unwrap(parser).latest.seq)]
            /\ hist' = [op |-> "take"]
            /\ UNCHANGED parse_chan
    /\ UNCHANGED viewVars
    /\ UNCHANGED <<next_flamegraph, mode, pc, pyspy_data, rx, accumulated_stacks,
                   has_new_data, parse_input, parse_output, sampler_state>>

\* both parser threads (app.rs 88-94, lib.rs 103-110): parse, then store the tree
ParserStore ==
    /\ Alive
    /\ IsSome(parser)
    /\ Unwrap(parser).at = "parse"
    /\ LET latest == Unwrap(parser).latest
           parsed == [flamegraph |-> from_string(latest.data, TRUE), seq |-> latest.seq]
       IN /\ next_flamegraph' = store_parsed(next_flamegraph, parsed)
          /\ live' = [live EXCEPT !.stored = latest.seq,
                                  !.frozen_stores = IF state.freeze THEN @ + 1 ELSE @]
    /\ parser' = None
    /\ hist' = [op |-> "store"]
    /\ UNCHANGED viewVars
    /\ UNCHANGED <<mode, pc, pyspy_data, parse_chan, rx, accumulated_stacks,
                   has_new_data, parse_input, parse_output, sampler_state>>

\* Event::Tick with the slot the threads share: the swap, then the look at
\* the sampler's status
TickLive ==
    /\ pc = "event"
    /\ LET r == tick(Cur, IF mode = "pid" THEN next_flamegraph ELSE None)
           panics == tick_panics(r.view, sampler_state)
           failed == IsSome(sampler_state) /\ Unwrap(sampler_state).status = "Error"
           ticked == IF failed /\ ~panics THEN Survived(Ticked(live)) ELSE Ticked(live)
       IN /\ flamegraph' = r.view.flamegraph
          /\ state' = r.view.state
          /\ IF r.replaced
             THEN /\ next_flamegraph' = r.slot
                  /\ live' = Swapped(ticked, Unwrap(next_flamegraph))
             ELSE /\ UNCHANGED next_flamegraph
                  /\ live' = ticked
          /\ hist' = IF panics THEN [op |-> "panic"]
                     ELSE IF r.replaced THEN ReplaceNote ELSE [op |-> "step"]
          /\ pc' = IF panics THEN "panicked" ELSE IF mode = "stream" THEN "drain" ELSE "draw"
    /\ UNCHANGED <<input_buffer, transient_message, running, mode>>
    /\ UNCHANGED <<pyspy_data, parser, parse_chan, rx, accumulated_stacks,
                   has_new_data, parse_input, parse_output, sampler_state>>

NextLive ==
    \/ Draw
    \/ KeyQuit
    \/ KeyFreeze
    \/ OtherEvent
    \/ TickLive
    \/ SamplerDump
    \/ SamplerFail
    \/ SamplerExit
    \/ ParserTake
    \/ Produce
    \/ LoopDrain
    \/ LoopSend
    \/ LoopSwap
    \/ ParserRecv
    \/ ParserTryRecv
    \/ ParserStore

SpecLive == InitLive /\ [][NextLive]_vars

\* SpecLiveFair: the program goes on (no quit, no failure of the sampler),
\* the threads run and ticks keep coming.  The foreground loop and the parser
\* thread are never blocked for ever at an enabled step; a Tick is sent every
\* tick_rate, so a loop that waits for an event over and over handles a Tick
\* again and again.
NextLiveFair ==
    \/ Draw
    \/ KeyFreeze
    \/ OtherEvent
    \/ TickLive
    \/ SamplerDump
    \/ SamplerExit
    \/ ParserTake
    \/ Produce
    \/ LoopDrain
    \/ LoopSend
    \/ LoopSwap
    \/ ParserRecv
    \/ ParserTryRecv
    \/ ParserStore

\* the guards of LoopDrain and of ParserStore
LoopDrainReady == pc = "drain" /\ rx # <<>>
ParserStoreReady == Alive /\ IsSome(parser) /\ Unwrap(parser).at = "parse"

\* weak fairness of LoopDrain and of ParserStore, written with their guards
LiveFairness ==
    /\ WF_vars(Draw)
    /\ SF_vars(TickLive)
    /\ []<>(~LoopDrainReady) \/ []<><<LoopDrain>>_vars
    /\ WF_vars(LoopSend)
    /\ WF_vars(LoopSwap)
    /\ WF_vars(ParserTake)
    /\ WF_vars(ParserRecv)
    /\ WF_vars(ParserTryRecv)
    /\ []<>(~ParserStoreReady) \/ []<><<ParserStore>>_vars

SpecLiveFair == InitLive /\ [][NextLiveFair]_vars /\ LiveFairness


----------------------------------------------------------------------------
(* Claims about the live pipeline, checked under SpecLive *)

\* C7: while the frozen flag is set no tree is swapped into the view, in
\* every run mode.
C7_NoSwapWhileFrozen == ~(hist.op = "replace" /\ state.freeze)

\* C7, for the modes in which only a tick swaps (static file, pid sampling)
C7_NoSwapWhileFrozenByTick ==
    mode # "stream" => ~(hist.op = "replace" /\ state.freeze)

\* the payload the parser hand-off holds is empty
HandOffEmpty == pyspy_data = None /\ parse_chan = <<>>

\* C8: the parser stores every tree it builds, frozen or not, so the slot
\* always holds the tree of the payload parsed last, and a tree swapped in
\* (the first tick after unfreezing included) is that tree, never an older one.
C8_UnfreezeShowsLatest ==
    /\ IsSome(next_flamegraph) => Unwrap(next_flamegraph).seq = live.stored
    /\ hist.op = "replace" => live.shown = live.stored

\* a tick swaps a tree in after the parser overwrote the slot while the view
\* was frozen
C8_Witness ==
    /\ mode = "pid"
    /\ hist.op = "replace"
    /\ ~state.freeze
    /\ live.swap_frozen_stores >= 2
    /\ live.shown = live.stored

\* C9: a parse starts with the payload delivered last and leaves the hand-off
\* empty; the payloads parsed are parsed once and in delivery order; a
\* payload superseded before any parse started with it is never parsed.
C9_LatestWins ==
    /\ hist.op = "take" =>
          /\ Unwrap(parser).latest.seq = live.delivered
          /\ HandOffEmpty
    /\ \A i, j \in 1..Len(live.taken) : i < j => live.taken[i] < live.taken[j]
    /\ \A n \in live.superseded : ~Contains(live.taken, n)

\* a parse starts after an undelivered payload was superseded
C9_Witness ==
    /\ hist.op = "take"
    /\ live.superseded # {}
    /\ Len(live.taken) >= 2

\* C10: between two consecutive tick events at most one tree is swapped into
\* the view, in every run mode.
C10_OneSwapPerTick == live.between_ticks <= 1

\* C10, for the modes in which only a tick swaps (static file, pid sampling)
C10_OneSwapPerTickByTick == mode # "stream" => live.between_ticks <= 1

\* C11: once the sampler's status is Error no tick returns: the tick that
\* sees it ends the loop with a panic, frozen or not, and nothing runs after.
C11_SamplerErrorStopsLoop ==
    /\ live.error_ticks = 0
    /\ pc = "panicked" =>
          /\ hist.op = "panic"
          /\ Unwrap(sampler_state).status = "Error"

\* the loop ended on the sampler's error while the view was frozen
C11_Witness == pc = "panicked" /\ state.freeze

----------------------------------------------------------------------------
(* ui.rs: the widths render_stacks gives to the stacks *)

\* `x as u16` of an f64 that is not negative: NaN gives 0, the rest is cut
\* to a whole number, at most u16::MAX
as_u16(x) ==
    IF x.k = "nan" THEN 0
    ELSE IF x.k = "inf" THEN 65535
    ELSE Min({x.n \div x.d, 65535})

\* render_flamegraph (126-134): the zoom as the renderer sees it
render_zoom_state(v) ==
    IF IsSome(v.state.zoom)
    THEN Some([zoom_stack |-> Unwrap(v.state.zoom).stack_id,
               ancestors |-> get_ancestors(v.flamegraph, Unwrap(v.state.zoom).stack_id)])
    ELSE None

\* render_stacks (201-211): the first child that is the zoom target or above it
zoomed_child(stack, zoom_state) ==
    IF IsSome(zoom_state)
    THEN LET found == {i \in 1..Len(stack.children) :
                         \/ stack.children[i] = Unwrap(zoom_state).zoom_stack
                         \/ Contains(Unwrap(zoom_state).ancestors, stack.children[i])}
         IN IF found = {} THEN None ELSE Some(stack.children[Min(found)])
    ELSE None

\* render_stacks (216-225): the budget of a child of `stack`
child_x_budget(stack, child_stack, x_budget, zoom_state) ==
    IF IsSome(zoomed_child(stack, zoom_state))
    THEN (IF Unwrap(zoomed_child(stack, zoom_state)) = child_stack.id
          THEN x_budget ELSE FFromInt(0))
    ELSE FMul(x_budget, FDiv(child_stack.total_count, stack.total_count))

\* render_stacks (170-240) on a viewport tall enough: the x_budget the stack is
\* rendered with; 0 for a stack below one that got no cell, which is where
\* the recursion ends (185-198)
RECURSIVE x_budget_of(_, _)
x_budget_of(v, stack_id) ==
    LET stack == StackAt(v.flamegraph.stacks, stack_id)
    IN IF ~IsSome(stack.parent) THEN FFromInt(Unwrap(v.state.frame_width))
       ELSE LET parent == StackAt(v.flamegraph.stacks, Unwrap(stack.parent))
                x_budget == x_budget_of(v, parent.id)
            IN IF as_u16(x_budget) = 0 THEN FFromInt(0)
               ELSE child_x_budget(parent, stack, x_budget, render_zoom_state(v))

\* effective_x_budget of the stack: the cells of its line
rendered_width(v, stack_id) == as_u16(x_budget_of(v, stack_id))

----------------------------------------------------------------------------
(* SpecView: a view is built step by step (a parsed text, a draw, a manual    *)
(* search, a zoom, a selection with scrolling), then one operation of        *)
(* FlameGraphView or App is applied to it; flamegraph and state hold the     *)
(* view before the operation, parse_output what the operation gave.          *)

MaxOpLines == 3
MaxRow == 1

OpPool ==
    { <<"a", ";", "a", " ", "3">>,
      <<"a", ";", ".", " ", "1">>,
      <<"b", ";", "a", " ", "3">> }

OpTexts == {JoinLines(ls) : ls \in SeqsUpTo(OpPool, MaxOpLines)}

\* the manual patterns a view is built with: none, a literal, any character
OpManual == {None, Some(<<"a">>), Some(<<".">>)}

\* the short names of the frames of a tree
FrameNames(fg) ==
    {Slice(fg.data, fg.stacks[i].start_index, fg.stacks[i].end_index) :
        i \in 2..Len(fg.stacks)}

InitView ==
    /\ mode = "view"
    /\ flamegraph = from_string(<<>>, TRUE)
    /\ state = DefaultState
    /\ input_buffer = None
    /\ transient_message = None
    /\ running = TRUE
    /\ next_flamegraph = None
    /\ pc = "load"
    /\ pyspy_data = None
    /\ parser = None
    /\ parse_chan = <<>>
    /\ rx = <<>>
    /\ accumulated_stacks = <<>>
    /\ has_new_data = FALSE
    /\ parse_input = None
    /\ parse_output = None
    /\ sampler_state = None
    /\ hist = [op |-> "init"]
    /\ live = None

\* one step of building the view: from position `from` to position `to`
Built(from, to, v) ==
    /\ mode = "view"
    /\ pc = from
    /\ flamegraph' = v.flamegraph
    /\ state' = v.state
    /\ pc' = to
    /\ UNCHANGED <<input_buffer, transient_message, running, next_flamegraph, mode,
                   pyspy_data, parser, parse_chan, rx, accumulated_stacks, has_new_data,
                   parse_input, parse_output, sampler_state, hist, live>>

\* app.rs 59-75: the view of a parsed text
BuildLoad ==
    \E text \in OpTexts : Built("load", "draw", View(from_string(text, TRUE), DefaultState))

\* ui.rs 590-606: the first draw, with one level on screen
BuildDraw ==
    \E frame_width \in FrameWidths :
        Built("draw", "search", set_frame_width(set_frame_height(Cur, 1), frame_width))

\* a manual search, or none
BuildSearch ==
    \E manual \in OpManual :
        Built("search", "zoom",
              IF IsSome(manual)
              THEN set_manual_search_pattern(Cur, None, Unwrap(manual), TRUE).view
              ELSE Cur)

\* the cursor on a stack and Enter, or no zoom
BuildZoom ==
    \E zoomed \in 0..(Len(flamegraph.stacks) - 1) :
        Built("zoom", "select",
              IF zoomed = ROOT_ID THEN Cur ELSE set_zoom(select_id(Cur, zoomed)))

\* the cursor on any stack, and `row` steps of scrolling and of the table cursor
BuildSelect ==
    \E selected \in 0..(Len(flamegraph.stacks) - 1), row \in 0..MaxRow :
        /\ row < Cardinality(FrameNames(flamegraph)) \/ row = 0
        /\ LET v == set_level_offset(select_id(Cur, selected), row)
           IN Built("select", "event",
                    View(v.flamegraph,
                         [v.state EXCEPT !.table_state = [selected |-> row, offset |-> row]]))

\* the operation `op` gave `result`
Applied(op, result) ==
    /\ mode = "view"
    /\ pc = "event"
    /\ parse_output = None
    /\ parse_output' = Some([op |-> op, result |-> result])
    /\ UNCHANGED <<flamegraph, state, input_buffer, transient_message, running,
                   next_flamegraph, mode, pc, pyspy_data, parser, parse_chan, rx,
                   accumulated_stacks, has_new_data, parse_input, sampler_state, hist,
                   live>>

\* what the operation `op` gave, if it is the one that was applied
Given(op) ==
    IF IsSome(parse_output) /\ Unwrap(parse_output).op = op
    THEN Some(Unwrap(parse_output).result)
    ELSE None

\* handler.rs 52: 'r'
ApplyReset == Applied("reset", reset(Cur))

\* the texts submitted with Enter: nothing, a pattern, and two that do not compile
SubmitTexts == {<<>>, <<"a">>, <<"(">>, <<"a", "\\">>}

\* handler.rs 165-173: Enter in the search input
ApplySubmit ==
    \E buffer \in SubmitTexts :
        Applied("enter", [buffer |-> buffer,
                          after |-> input_enter(Cur, transient_message, buffer)])

\* view.rs 24-36: select_id with the id of a stack of the tree
ApplySelect ==
    \E stack_id \in 0..(Len(flamegraph.stacks) - 1) :
        Applied("select", [stack_id |-> stack_id, after |-> select_id(Cur, stack_id)])

\* the patterns set_hits is applied with: regexes, one of them matching the
\* empty text, and the literal of the root's name
HitPatterns ==
    { Unwrap(SearchPattern_new(<<"a">>, TRUE, TRUE)),
      Unwrap(SearchPattern_new(<<"^">>, TRUE, TRUE)),
      Unwrap(SearchPattern_new(<<".">>, FALSE, FALSE)),
      Unwrap(SearchPattern_new(ROOT, FALSE, FALSE)) }

\* flame.rs 340-349: set_hits on the tree of the view
ApplySetHits ==
    \E p \in HitPatterns :
        Applied("set_hits", [p |-> p, after |-> set_hits(flamegraph, p)])

\* view.rs 182-208: the siblings of a stack of the tree
ApplySibling ==
    \E stack_id \in 0..(Len(flamegraph.stacks) - 1) :
        Applied("sibling", [stack_id |-> stack_id,
                            next |-> get_next_sibling(Cur, stack_id),
                            previous |-> get_previous_sibling(Cur, stack_id)])

\* handler.rs 76-81: to_next_sibling and to_previous_sibling
ApplyToSibling ==
    Applied("to_sibling", [next |-> to_next_sibling(Cur),
                           previous |-> to_previous_sibling(Cur)])

\* handler.rs 76-81: one sibling move and the opposite one after it
ApplySiblingRoundTrip ==
    Applied("round_trip", [previous_next |-> to_next_sibling(to_previous_sibling(Cur)),
                           next_previous |-> to_previous_sibling(to_next_sibling(Cur))])

\* handler.rs: 'n' and 'N', on the view and on the view after Enter with an
\* empty search text
ApplySearchStep ==
    Applied("search_step",
            [next |-> to_next_search_result(Cur),
             previous |-> to_previous_search_result(Cur),
             cleared |-> input_enter(Cur, None, <<>>).view,
             cleared_next |-> to_next_search_result(input_enter(Cur, None, <<>>).view),
             cleared_previous |->
                 to_previous_search_result(input_enter(Cur, None, <<>>).view)])

\* handler.rs 159-180: Esc or Enter in an empty search input, on the view
\* and on the view after reset, which has no pattern
ApplyInputKey ==
    \E key \in {"Esc", "Enter"} :
        Applied("input_key",
                [key |-> key,
                 after |-> handle_input_buffer(Cur, transient_message, <<>>, key),
                 without |-> reset(Cur),
                 after_without |->
                     handle_input_buffer(reset(Cur), transient_message, <<>>, key)])

\* handler.rs: Enter and Esc in the flamegraph view, and a zoom on the root
ApplyZoom ==
    Applied("zoom", [set |-> set_zoom(Cur),
                     set_root |-> set_zoom_for_id(Cur, ROOT_ID),
                     unset |-> unset_zoom(Cur)])

\* the trees a live replacement brings: frames without a sample among them
RenderPool ==
    { <<"a", ";", "a", " ", "0">>,
      <<"a", ";", "a", " ", "0", "\n", "b", ";", "a", " ", "3">>,
      <<"a", ";", ".", " ", "2", "\n", "b", ";", "a", " ", "1">> }

\* app.rs 146-157: the tree of the view is replaced, as by a tick; the next
\* render draws the view with the width of the render before
ApplyRender ==
    \E text \in RenderPool :
        Applied("render", [text |-> text,
                           after |-> replace_flamegraph(Cur, from_string(text, TRUE))])

NextView ==
    \/ BuildLoad
    \/ BuildDraw
    \/ BuildSearch
    \/ BuildZoom
    \/ BuildSelect
    \/ ApplyReset
    \/ ApplySubmit
    \/ ApplySelect
    \/ ApplySetHits
    \/ ApplySibling
    \/ ApplyToSibling
    \/ ApplySiblingRoundTrip
    \/ ApplySearchStep
    \/ ApplyZoom
    \/ ApplyInputKey
    \/ ApplyRender

SpecView == InitView /\ [][NextView]_vars

----------------------------------------------------------------------------
(* Claims checked under SpecView *)

\* C12: reset is total: applied to any view it gives the root selected, scroll
\* offset 0, no zoom, no pattern, no stack flagged as a hit and no hit summary,
\* and the table cursor at row 0.
C12_ResetClearsAll ==
    IsSome(Given("reset")) =>
        LET v == Unwrap(Given("reset"))
        IN /\ v.state.selected = ROOT_ID
           /\ v.state.level_offset = 0
           /\ v.state.zoom = None
           /\ v.state.search_pattern = None
           /\ \A i \in 1..Len(v.flamegraph.stacks) : ~v.flamegraph.stacks[i].hit
           /\ v.flamegraph.hits = None
           /\ v.state.table_state.selected = 0

\* reset was applied to a view with a frame selected and zoomed on, scrolled,
\* a manual pattern with hits, and the table cursor off row 0
C12_Witness ==
    /\ IsSome(Given("reset"))
    /\ state.selected # ROOT_ID
    /\ IsSome(state.zoom)
    /\ state.level_offset > 0
    /\ IsSome(state.search_pattern) /\ Unwrap(state.search_pattern).is_manual
    /\ \E i \in 1..Len(flamegraph.stacks) : flamegraph.stacks[i].hit
    /\ state.table_state.selected > 0

\* C13: submitting a manual pattern that fails to compile leaves the pattern,
\* the hit flags and coverage, the selection, the zoom and the scroll offset (the
\* whole view) as they were; only the transient error message is set.
C13_FailedSearchChangesNothing ==
    (/\ IsSome(Given("enter"))
     /\ SearchPattern_new(Unwrap(Given("enter")).buffer, TRUE, TRUE) = None) =>
        LET r == Unwrap(Given("enter"))
        IN /\ r.after.view = Cur
           /\ r.after.message = Some(<<"Invalid regex: ">> \o r.buffer)

\* a pattern that does not compile was submitted while a manual pattern with
\* hits was active on a zoomed view
C13_Witness ==
    /\ IsSome(Given("enter"))
    /\ Unwrap(Given("enter")).buffer = <<"(">>
    /\ IsSome(Unwrap(Given("enter")).after.message)
    /\ IsSome(state.search_pattern) /\ Unwrap(state.search_pattern).is_manual
    /\ IsSome(flamegraph.hits) /\ Unwrap(flamegraph.hits).ids # <<>>
    /\ IsSome(state.zoom)

\* no manual pattern is active in the view the operation is applied to
NoManualPattern ==
    ~(IsSome(state.search_pattern) /\ Unwrap(state.search_pattern).is_manual)

\* select_id gave a view with the cursor on the stack and an automatic pattern
\* whose literal is the short name of the stack
AutoPatternInstalled(r) ==
    /\ r.after.state.selected = r.stack_id
    /\ IsSome(r.after.state.search_pattern)
    /\ LET p == Unwrap(r.after.state.search_pattern)
       IN /\ ~p.is_manual
          /\ ~p.is_regex
          /\ Some(p.pattern) = get_stack_short_name(flamegraph, r.stack_id)

\* C14: with no manual pattern active, select(n) sets the cursor to n and
\* installs an automatic pattern whose literal is n's short name; afterwards
\* the flagged nodes are exactly the nodes whose short name equals n's short
\* name character for character.
C14_SelectFlagsSameName ==
    (IsSome(Given("select")) /\ NoManualPattern) =>
        LET r == Unwrap(Given("select"))
            fg == r.after.flamegraph
        IN /\ AutoPatternInstalled(r)
           /\ \A id \in 0..(Len(fg.stacks) - 1) :
                 StackAt(fg.stacks, id).hit <=>
                    get_stack_short_name(fg, id) = get_stack_short_name(fg, r.stack_id)

\* the same with the root left out of the flagged nodes: what the code does for
\* trees that have no frame with an empty name
C14_SelectFlagsSameNameFrames ==
    (IsSome(Given("select")) /\ NoManualPattern) =>
        LET r == Unwrap(Given("select"))
            fg == r.after.flamegraph
        IN /\ AutoPatternInstalled(r)
           /\ ~StackAt(fg.stacks, ROOT_ID).hit
           /\ \A id \in 1..(Len(fg.stacks) - 1) :
                 StackAt(fg.stacks, id).hit <=>
                    get_stack_short_name(fg, id) = get_stack_short_name(fg, r.stack_id)

\* the frame named "." was selected and only it is flagged, next to a frame "a"
C14_Witness ==
    /\ IsSome(Given("select")) /\ NoManualPattern
    /\ LET r == Unwrap(Given("select"))
           fg == r.after.flamegraph
       IN /\ get_stack_short_name(fg, r.stack_id) = Some(<<".">>)
          /\ \E id \in 1..(Len(fg.stacks) - 1) :
                 get_stack_short_name(fg, id) = Some(<<"a">>) /\ ~StackAt(fg.stacks, id).hit

\* the hit stacks that have no hit stack among their proper ancestors
TopHits(fg) ==
    {id \in NodeIds(fg) :
        /\ StackAt(fg.stacks, id).hit
        /\ \A n \in ChainToRoot(fg, id) \ {id} : ~StackAt(fg.stacks, n).hit}

RECURSIVE SumTotalCounts(_, _)
SumTotalCounts(fg, ids) ==
    IF ids = {} THEN 0
    ELSE LET id == CHOOSE x \in ids : TRUE
         IN StackAt(fg.stacks, id).total_count + SumTotalCounts(fg, ids \ {id})

\* C16: after set_hits, coverage_count is the sum of total_count over the hit
\* nodes that have no hit proper ancestor; it is the root's total_count when the
\* root is a hit, and it never exceeds the root's total_count.
C16_CoverageCountsTopHits ==
    IsSome(Given("set_hits")) =>
        LET fg == Unwrap(Given("set_hits")).after
            coverage == Unwrap(fg.hits).coverage_count
        IN /\ coverage = SumTotalCounts(fg, TopHits(fg))
           /\ StackAt(fg.stacks, ROOT_ID).hit => coverage = total_count(fg)
           /\ coverage <= total_count(fg)

\* set_hits flagged a stack below a flagged stack and a stack in another branch,
\* below a stack that is not flagged
C16_Witness ==
    /\ IsSome(Given("set_hits"))
    /\ LET fg == Unwrap(Given("set_hits")).after
       IN /\ \E id \in NodeIds(fg) : StackAt(fg.stacks, id).hit /\ id \notin TopHits(fg)
          /\ Cardinality(TopHits(fg)) >= 2
          /\ \E id \in NodeIds(fg) \ {ROOT_ID} : ~StackAt(fg.stacks, id).hit

\* set_hits flagged the root
C16_WitnessRoot ==
    /\ IsSome(Given("set_hits"))
    /\ LET fg == Unwrap(Given("set_hits")).after
       IN StackAt(fg.stacks, ROOT_ID).hit /\ total_count(fg) > 0

\* C17: after set_hits(tree, p), every node of the tree, the root included, is
\* flagged exactly when p matches the node's short name as get_stack_short_name
\* returns it ("all" for the root).
C17_HitIffShortNameMatches ==
    IsSome(Given("set_hits")) =>
        LET r == Unwrap(Given("set_hits"))
        IN \A id \in NodeIds(r.after) :
              StackAt(r.after.stacks, id).hit <=>
                 is_match(r.p.re, Unwrap(get_stack_short_name(r.after, id)))

\* the same for the frames, with the root flagged exactly when p matches the
\* empty text
C17_HitIffFrameNameMatches ==
    IsSome(Given("set_hits")) =>
        LET r == Unwrap(Given("set_hits"))
        IN /\ \A id \in NodeIds(r.after) \ {ROOT_ID} :
                 StackAt(r.after.stacks, id).hit <=>
                    is_match(r.p.re, Unwrap(get_stack_short_name(r.after, id)))
           /\ StackAt(r.after.stacks, ROOT_ID).hit <=> is_match(r.p.re, <<>>)

\* the level row of the depth of a stack, and the places of the visibly wide
\* stacks in it
RowOf(fg, stack_id) == fg.levels[StackAt(fg.stacks, stack_id).level + 1]

WidePlaces(v, row) ==
    {j \in 1..Len(row) : is_stack_visibly_wide(v, StackAt(v.flamegraph.stacks, row[j]), None)}

\* C20: get_next_sibling(x) is the nearest visibly wide node after x in the
\* level row of x's depth, whatever its parent, and None when there is none;
\* get_previous_sibling is the mirror image; there is no wraparound, the root
\* has no sibling, and to_next_sibling / to_previous_sibling leave the view as
\* it is when the result is None (and select the sibling otherwise).
C20_NearestWideSibling ==
    /\ IsSome(Given("sibling")) =>
          LET r == Unwrap(Given("sibling"))
              row == RowOf(flamegraph, r.stack_id)
              at == CHOOSE j \in 1..Len(row) : row[j] = r.stack_id
              after == {j \in WidePlaces(Cur, row) : j > at}
              before == {j \in WidePlaces(Cur, row) : j < at}
          IN /\ r.next = IF after = {} THEN None ELSE Some(row[Min(after)])
             /\ r.previous = IF before = {} THEN None ELSE Some(row[Max(before)])
             /\ r.stack_id = ROOT_ID => r.next = None /\ r.previous = None
    /\ IsSome(Given("to_sibling")) =>
          LET r == Unwrap(Given("to_sibling"))
              next == get_next_sibling(Cur, state.selected)
              previous == get_previous_sibling(Cur, state.selected)
          IN /\ r.next = IF IsSome(next) THEN select_id(Cur, Unwrap(next)) ELSE Cur
             /\ r.previous = IF IsSome(previous) THEN select_id(Cur, Unwrap(previous))
                             ELSE Cur

\* the next sibling has another parent and lies past a stack that is too narrow
C20_Witness ==
    /\ IsSome(Given("sibling"))
    /\ LET r == Unwrap(Given("sibling"))
           row == RowOf(flamegraph, r.stack_id)
       IN /\ IsSome(r.next)
          /\ StackAt(flamegraph.stacks, Unwrap(r.next)).parent #
                StackAt(flamegraph.stacks, r.stack_id).parent
          /\ PositionIn(row, Unwrap(r.next)) > PositionIn(row, r.stack_id) + 1

\* the last wide stack of a row with several wide stacks has no next sibling,
\* and moving to it leaves the view as it is
C20_WitnessNoWrap ==
    /\ IsSome(Given("to_sibling"))
    /\ Unwrap(Given("to_sibling")).next = Cur
    /\ Unwrap(Given("to_sibling")).previous # Cur
    /\ state.selected # ROOT_ID

----------------------------------------------------------------------------
(* Claims about the manual pattern, checked under Spec *)

ManualPatternActive ==
    IsSome(state.search_pattern) /\ Unwrap(state.search_pattern).is_manual

\* the step is Enter in the search input: an empty text, or a text that compiled
SearchSubmitted ==
    /\ IsSome(input_buffer)
    /\ input_buffer' = None
    /\ \/ Unwrap(input_buffer) = <<>>
       \/ IsSome(SearchPattern_new(Unwrap(input_buffer), TRUE, TRUE))
    /\ View(flamegraph', state') =
          input_enter(Cur, transient_message, Unwrap(input_buffer)).view

\* the step is '#': a manual search for the name of the selected frame
SelectedSearched ==
    /\ input_buffer = None
    /\ View(flamegraph', state') = search_selected(Cur, transient_message).view

\* the step is 'r'
ResetDone == input_buffer = None /\ View(flamegraph', state') = reset(Cur)

\* C15: while a manual pattern is active, no navigation command and no live
\* replacement changes or removes it; a step changes it only as a submitted
\* search (a text that compiled, or the empty text), a search for the selected
\* frame, or a reset.
C15_ManualPatternKept ==
    [][(ManualPatternActive /\ state'.search_pattern # state.search_pattern)
          => (SearchSubmitted \/ SelectedSearched \/ ResetDone)]_vars

\* a manual pattern is active, and navigation has moved the cursor to a frame
\* with another name and zoomed on it
C15_Witness ==
    /\ ManualPatternActive
    /\ Unwrap(state.search_pattern).pattern = <<"a">>
    /\ state.selected # ROOT_ID
    /\ get_stack_short_name(flamegraph, state.selected) = Some(<<"b">>)
    /\ IsSome(state.zoom)

----------------------------------------------------------------------------
(* Claims about width factors and child order, checked under SpecParse *)

\* == of two f64 values: a NaN is equal to nothing
FEq(x, y) == x.k # "nan" /\ y.k # "nan" /\ x = y

\* 0.0 < x <= 1.0
FInUnitInterval(x) == x.k = "fin" /\ 0 < x.n /\ x.n <= x.d

\* the root's factor is 1.0, every other node's factor is its parent's factor
\* times the ratio of their total counts, and lies in (0, 1]
WidthFactorsNormalized(fg) ==
    /\ FEq(StackAt(fg.stacks, ROOT_ID).width_factor, Fin(1, 1))
    /\ \A id \in NodeIds(fg) \ {ROOT_ID} :
          LET stack == StackAt(fg.stacks, id)
              parent == StackAt(fg.stacks, Unwrap(stack.parent))
          IN /\ FEq(stack.width_factor,
                    FMul(parent.width_factor,
                         FDiv(stack.total_count, parent.total_count)))
             /\ FInUnitInterval(stack.width_factor)

\* C18: for every accepted input (counts are non-negative integers) the root's
\* width_factor is 1.0 and every other node's width_factor equals its parent's
\* factor times total_count(node) / total_count(parent) and lies in (0, 1].
C18_WidthFactors ==
    IsSome(parse_output) => WidthFactorsNormalized(Unwrap(parse_output))

\* the same for the inputs whose nodes all have a positive total count
C18_WidthFactorsOfPositiveCounts ==
    (/\ IsSome(parse_output)
     /\ \A id \in NodeIds(Unwrap(parse_output)) \ {ROOT_ID} :
           StackAt(Unwrap(parse_output).stacks, id).total_count > 0)
        => WidthFactorsNormalized(Unwrap(parse_output))

\* a parsed tree of positive counts with a frame two levels down that is
\* narrower than its parent
C18_Witness ==
    /\ IsSome(parse_output)
    /\ \E id \in NodeIds(Unwrap(parse_output)) \ {ROOT_ID} :
          LET fg == Unwrap(parse_output)
              stack == StackAt(fg.stacks, id)
          IN /\ stack.level = 2
             /\ stack.total_count > 0
             /\ stack.total_count < StackAt(fg.stacks, Unwrap(stack.parent)).total_count
             /\ \A n \in NodeIds(fg) \ {ROOT_ID} : StackAt(fg.stacks, n).total_count > 0

\* x first appears in the text before y
AppearsBefore(fg, x, y) ==
    StackAt(fg.stacks, x).start_index < StackAt(fg.stacks, y).start_index

\* every node's children are in first-appearance order
ChildrenInAppearanceOrder(fg) ==
    \A id \in NodeIds(fg) :
       LET children == StackAt(fg.stacks, id).children
       IN \A i \in 1..(Len(children) - 1) : AppearsBefore(fg, children[i], children[i + 1])

\* every node's children are in descending order of total_count
ChildrenDescending(fg) ==
    \A id \in NodeIds(fg) :
       LET children == StackAt(fg.stacks, id).children
       IN \A i \in 1..(Len(children) - 1) :
             StackAt(fg.stacks, children[i]).total_count >=
                StackAt(fg.stacks, children[i + 1]).total_count

\* children with equal total_count are in first-appearance order
TiesInAppearanceOrder(fg) ==
    \A id \in NodeIds(fg) :
       LET children == StackAt(fg.stacks, id).children
       IN \A i \in 1..(Len(children) - 1) :
             StackAt(fg.stacks, children[i]).total_count =
                StackAt(fg.stacks, children[i + 1]).total_count
             => AppearsBefore(fg, children[i], children[i + 1])

\* children with equal total_count are in the reverse of first-appearance order
TiesInReverseAppearanceOrder(fg) ==
    \A id \in NodeIds(fg) :
       LET children == StackAt(fg.stacks, id).children
       IN \A i \in 1..(Len(children) - 1) :
             StackAt(fg.stacks, children[i]).total_count =
                StackAt(fg.stacks, children[i + 1]).total_count
             => AppearsBefore(fg, children[i + 1], children[i])

\* C19: when sorted is requested, every node's children are in descending order
\* of total_count and children with equal total_count keep the order in which
\* they first appeared in the input; when it is not requested, children stay in
\* first-appearance order.
C19_StableDescendingChildren ==
    IsSome(parse_output) =>
        LET fg == Unwrap(parse_output)
        IN IF parse_input.sorted
           THEN ChildrenDescending(fg) /\ TiesInAppearanceOrder(fg)
           ELSE ChildrenInAppearanceOrder(fg)

\* what the code does: descending, and equal totals in reverse appearance order
C19_DescendingChildrenTiesReversed ==
    IsSome(parse_output) =>
        LET fg == Unwrap(parse_output)
        IN IF parse_input.sorted
           THEN ChildrenDescending(fg) /\ TiesInReverseAppearanceOrder(fg)
           ELSE ChildrenInAppearanceOrder(fg)

----------------------------------------------------------------------------
(* Claims about moves in the flamegraph view, checked under SpecView *)

\* the selected stack of the view is visibly wide
SelectedIsWide ==
    is_stack_visibly_wide(Cur, StackAt(flamegraph.stacks, state.selected), None)

\* C21: for every selected node x that is visibly wide and has a previous
\* sibling, to_next_sibling after to_previous_sibling selects x again; and
\* to_previous_sibling after to_next_sibling when x has a next sibling.
C21_SiblingRoundTrip ==
    (IsSome(Given("round_trip")) /\ SelectedIsWide) =>
        LET r == Unwrap(Given("round_trip"))
        IN /\ IsSome(get_previous_sibling(Cur, state.selected))
                 => r.previous_next.state.selected = state.selected
           /\ IsSome(get_next_sibling(Cur, state.selected))
                 => r.next_previous.state.selected = state.selected

\* the round trip was made from a wide stack whose previous sibling lies past
\* a stack that is too narrow
C21_Witness ==
    /\ IsSome(Given("round_trip")) /\ SelectedIsWide
    /\ IsSome(get_previous_sibling(Cur, state.selected))
    /\ LET row == RowOf(flamegraph, state.selected)
       IN PositionIn(row, Unwrap(get_previous_sibling(Cur, state.selected)))
             < PositionIn(row, state.selected) - 1
    /\ Unwrap(Given("round_trip")).previous_next.state.selected = state.selected

\* x comes before y in level order: by depth, then by place in the level row
ComesBefore(fg, x, y) ==
    \/ StackAt(fg.stacks, x).level < StackAt(fg.stacks, y).level
    \/ /\ StackAt(fg.stacks, x).level = StackAt(fg.stacks, y).level
       /\ PositionIn(RowOf(fg, x), x) < PositionIn(RowOf(fg, y), y)

\* the flagged stacks of a view that are visibly wide
WideHits(v) ==
    {id \in NodeIds(v.flamegraph) :
        /\ StackAt(v.flamegraph.stacks, id).hit
        /\ is_stack_visibly_wide(v, StackAt(v.flamegraph.stacks, id), None)}

\* the selection after a step: the first of `candidates` in the order `before`
\* (a set of pairs), the old selection when there is none
FirstOrStay(candidates, before, selected) ==
    IF candidates = {} THEN selected
    ELSE CHOOSE id \in candidates : \A o \in candidates \ {id} : <<id, o>> \in before

\* C22: to_next_search_result selects the first visibly wide hit after the
\* selected node in (depth, place in level) order, to_previous_search_result
\* the last one before it; when there is none the view is unchanged, and both
\* change nothing when no search pattern is active.
C22_SearchStepInLevelOrder ==
    IsSome(Given("search_step")) =>
        LET r == Unwrap(Given("search_step"))
            fg == flamegraph
            after == {id \in WideHits(Cur) : ComesBefore(fg, state.selected, id)}
            before == {id \in WideHits(Cur) : ComesBefore(fg, id, state.selected)}
            forward == {<<x, y>> \in NodeIds(fg) \X NodeIds(fg) : ComesBefore(fg, x, y)}
            backward == {<<x, y>> \in NodeIds(fg) \X NodeIds(fg) : ComesBefore(fg, y, x)}
        IN /\ r.next.state.selected = FirstOrStay(after, forward, state.selected)
           /\ r.previous.state.selected = FirstOrStay(before, backward, state.selected)
           /\ after = {} => r.next = Cur
           /\ before = {} => r.previous = Cur
           /\ r.cleared.state.search_pattern = None
                 => r.cleared_next = r.cleared /\ r.cleared_previous = r.cleared

\* the step forward went to a hit one level down, although hits that are not
\* visibly wide or come before the selected stack exist
C22_Witness ==
    /\ IsSome(Given("search_step"))
    /\ LET r == Unwrap(Given("search_step"))
       IN /\ StackAt(flamegraph.stacks, r.next.state.selected).level
                > StackAt(flamegraph.stacks, state.selected).level
          /\ r.previous.state.selected # state.selected
          /\ \E id \in NodeIds(flamegraph) :
                StackAt(flamegraph.stacks, id).hit /\ id \notin WideHits(Cur)

\* a manual pattern was removed with the cursor on a frame, and the steps
\* changed nothing
C22_WitnessNoPattern ==
    /\ IsSome(Given("search_step"))
    /\ ManualPatternActive
    /\ state.selected # ROOT_ID
    /\ Unwrap(Given("search_step")).cleared.state.search_pattern = None
    /\ Unwrap(Given("search_step")).cleared_next = Unwrap(Given("search_step")).cleared

\* the zoom of a state is not on the root
ZoomNotOnRoot(st) == IsSome(st.zoom) => Unwrap(st.zoom).stack_id # ROOT_ID

\* C23: zooming on the root gives the same state as unset_zoom, with no zoom
\* afterwards, so the zoom target is never the root.
C23_ZoomOnRootIsUnzoom ==
    /\ ZoomNotOnRoot(state)
    /\ IsSome(Given("zoom")) =>
          LET r == Unwrap(Given("zoom"))
          IN /\ r.set_root = r.unset
             /\ r.set_root.state.zoom = None
             /\ state.selected = ROOT_ID => r.set = r.unset
             /\ ZoomNotOnRoot(r.set.state)

\* Enter was pressed with the cursor on the root while a frame was zoomed on
C23_Witness ==
    /\ IsSome(Given("zoom"))
    /\ state.selected = ROOT_ID
    /\ IsSome(state.zoom)
    /\ Unwrap(Given("zoom")).set.state.zoom = None

\* C24: unset_zoom with a zoom on z clears the zoom and leaves z selected,
\* whatever was selected before; with no zoom it leaves the view as it is.
C24_UnzoomSelectsZoomed ==
    IsSome(Given("zoom")) =>
        LET r == Unwrap(Given("zoom"))
        IN IF IsSome(state.zoom)
           THEN /\ r.unset.state.zoom = None
                /\ r.unset.state.selected = Unwrap(state.zoom).stack_id
           ELSE r.unset = Cur

\* the zoom was removed while another stack than the zoomed one was selected
C24_Witness ==
    /\ IsSome(Given("zoom"))
    /\ IsSome(state.zoom)
    /\ state.selected # Unwrap(state.zoom).stack_id
    /\ state.selected # ROOT_ID
    /\ Unwrap(Given("zoom")).unset.state.selected = Unwrap(state.zoom).stack_id

----------------------------------------------------------------------------
(* Claims about scrolling, checked under Spec *)

\* the key handlers of the flamegraph view can run on the current state
AtFlameGraphKey ==
    pc = "event" /\ input_buffer = None /\ InFlameGraph /\ IsSome(state.frame_height)

\* one more than the greatest depth of a stack that is visibly wide under the
\* current zoom
NumVisibleLevels(v) ==
    1 + Max({StackAt(v.flamegraph.stacks, id).level :
                id \in {i \in 0..(Len(v.flamegraph.stacks) - 1) :
                           is_stack_visibly_wide(v, StackAt(v.flamegraph.stacks, i), None)}}
            \cup {0})

\* the upper end of the scroll range: max(0, num_visible_levels - viewport_height)
VisibleBottom(v) ==
    Max({0, NumVisibleLevels(v) - Unwrap(v.state.frame_height)})

Clamp(x, lo, hi) == IF x < lo THEN lo ELSE IF x > hi THEN hi ELSE x

\* page_down, scroll_bottom and scroll_top as the range of visible levels has them
DownwardScrollInVisibleRange ==
    LET h == Unwrap(state.frame_height)
    IN /\ page_down(Cur).state.level_offset =
             Clamp(state.level_offset + h, 0, VisibleBottom(Cur))
       /\ scroll_bottom(Cur).state.level_offset = VisibleBottom(Cur)
       /\ scroll_top(Cur).state.level_offset = 0

\* C25: page_down and page_up move the scroll offset by one viewport height,
\* clamped to [0, max(0, num_visible_levels - viewport_height)]; scroll_bottom
\* gives the upper end of that range and scroll_top gives 0.
C25_PagingInVisibleRange ==
    AtFlameGraphKey =>
        /\ DownwardScrollInVisibleRange
        /\ page_up(Cur).state.level_offset =
              Clamp(state.level_offset - Unwrap(state.frame_height), 0, VisibleBottom(Cur))

\* C25 as the code has it: page_up is clamped to the raw depth of the tree
\* only, and ends in the visible range when it started at most one viewport
\* height above it.
C25_PageUpInRawRange ==
    AtFlameGraphKey =>
        LET h == Unwrap(state.frame_height)
            up == page_up(Cur).state.level_offset
        IN /\ DownwardScrollInVisibleRange
           /\ up = Clamp(state.level_offset - h, 0,
                         Max({0, get_num_levels(flamegraph) - h}))
           /\ state.level_offset <= VisibleBottom(Cur) + h => up <= VisibleBottom(Cur)

----------------------------------------------------------------------------
(* Claims about the table cursor, checked under SpecTable *)

\* the key handlers of the table view can run on the current state
AtTableKey == pc = "event" /\ input_buffer = None /\ InTable

\* the last row of the table, 0 when the table is empty
LastRow(fg) == Max({num_rows(fg) - 1, 0})

\* the table cursor after each of the four moves
TableMoves ==
    [next |-> to_next_row(Cur).state.table_state.selected,
     previous |-> to_previous_row(Cur).state.table_state.selected,
     page_next |-> scroll_next_rows(Cur).state.table_state.selected,
     page_previous |-> scroll_previous_rows(Cur).state.table_state.selected]

\* C26: after to_next_row, to_previous_row, scroll_next_rows and
\* scroll_previous_rows the table cursor lies in [0, rowCount - 1] (0 when the
\* table is empty), one row or one page from where it was otherwise.
C26_TableMovesClamped ==
    AtTableKey =>
        LET selected == state.table_state.selected
            last == LastRow(flamegraph)
        IN /\ TableMoves.next = Clamp(selected + 1, 0, last)
           /\ TableMoves.previous = Clamp(selected - 1, 0, last)
           /\ TableMoves.page_next = Clamp(selected + TableDelta(Cur), 0, last)
           /\ TableMoves.page_previous = Clamp(selected - TableDelta(Cur), 0, last)

\* C26 as the code has it: the moves down end in the table; the moves up stop
\* at 0 only, and end in the table when the cursor was in it.
C26_TableMovesUpFromInside ==
    AtTableKey =>
        LET selected == state.table_state.selected
            last == LastRow(flamegraph)
        IN /\ TableMoves.next = Clamp(selected + 1, 0, last)
           /\ TableMoves.page_next = Clamp(selected + TableDelta(Cur), 0, last)
           /\ TableMoves.previous = Max({selected - 1, 0})
           /\ TableMoves.page_previous = Max({selected - TableDelta(Cur), 0})
           /\ selected <= last =>
                 TableMoves.previous <= last /\ TableMoves.page_previous <= last

----------------------------------------------------------------------------
(* Claims about the accumulated samples, checked under SpecLive *)

RECURSIVE SumFn(_, _)
SumFn(f, S) ==
    IF S = {} THEN 0
    ELSE LET x == CHOOSE y \in S : TRUE IN f[x] + SumFn(f, S \ {x})

\* the count the valid lines among `lines` give to the path `stack`
PathCountIn(lines, stack) ==
    LET entries == MergeEntries(lines)
    IN SumSeq([i \in 1..Len(entries) |->
                  IF entries[i].stack = stack THEN entries[i].count ELSE 0])

\* the paths of the valid lines among `lines`
PathsIn(lines) ==
    {MergeEntries(lines)[i].stack : i \in 1..Len(MergeEntries(lines))}

\* the sum of a path's counts over all valid lines of all payloads received
ReceivedCount(stack) ==
    SumFn([new_data \in StreamPool |->
              live.received[new_data] * PathCountIn(str_lines(new_data), stack)],
          StreamPool)

\* the text `n` times, one copy per line group
RECURSIVE Repeated(_, _)
Repeated(text, n) == IF n = 0 THEN <<>> ELSE <<text>> \o Repeated(text, n - 1)

\* all payloads received, joined into one text
RECURSIVE ReceivedTexts(_)
ReceivedTexts(S) ==
    IF S = {} THEN <<>>
    ELSE LET new_data == CHOOSE y \in S : TRUE
         IN Repeated(new_data, live.received[new_data]) \o ReceivedTexts(S \ {new_data})

\* the counts of a tree by path
TreeCounts(fg) ==
    {[path |-> PathOf(fg, id), total_count |-> StackAt(fg.stacks, id).total_count,
      self_count |-> StackAt(fg.stacks, id).self_count] : id \in 0..(Len(fg.stacks) - 1)}

\* C27: in live-stream mode the accumulated count of each stack path is the
\* sum of that path's counts over all valid lines of all payloads received so
\* far, however the payloads were ordered and batched; after each receive the
\* tree parsed from the accumulated lines counts what the tree of all
\* payloads together counts.
C27_NoSampleLostOrDoubled ==
    mode = "stream" =>
        /\ Len(MergeEntries(accumulated_stacks)) = Len(accumulated_stacks)
        /\ \A stack \in PathsIn(accumulated_stacks)
                         \cup UNION {PathsIn(str_lines(new_data)) : new_data \in StreamPool} :
              PathCountIn(accumulated_stacks, stack) = ReceivedCount(stack)
        /\ Cardinality(PathsIn(accumulated_stacks)) = Len(accumulated_stacks)
        /\ has_new_data =>
              TreeCounts(from_string(JoinLines(accumulated_stacks), TRUE))
                = TreeCounts(from_string(JoinLines(ReceivedTexts(StreamPool)), TRUE))

\* the chunk of several lines was received twice and the single line once
C27_Witness ==
    /\ mode = "stream"
    /\ live.received[<<"a", ";", "b", " ", "1">>] = 1
    /\ \E new_data \in StreamPool : live.received[new_data] = 2
    /\ rx = <<>>
    /\ accumulated_stacks = << <<"#", " ", "2">>, <<"a", " ", "6">>,
                               <<"a", ";", "b", " ", "1">> >>

----------------------------------------------------------------------------
(* Claims about the moves to a child and to the parent, checked under Spec *)

\* the depth lies in the viewport [level_offset, level_offset + frame_height - 1]
DepthInViewport(st, depth) ==
    /\ st.level_offset <= depth
    /\ depth <= st.level_offset + Unwrap(st.frame_height) - 1

\* the children of the selected stack that are visibly wide
WideChildren ==
    {c \in 0..(Len(flamegraph.stacks) - 1) :
        /\ StackAt(flamegraph.stacks, c).parent = Some(state.selected)
        /\ is_stack_visibly_wide(Cur, StackAt(flamegraph.stacks, c), None)}

\* C28: to_child selects, among the visibly wide children of the selected
\* node, one with the greatest total_count; with none it leaves the selection
\* and the scroll offset; the offset grows by exactly one when the chosen
\* child's depth is outside the viewport and is unchanged otherwise.
C28_ToChildWidest ==
    AtFlameGraphKey =>
        LET after == to_child_stack(Cur).state
            child == StackAt(flamegraph.stacks, after.selected)
        IN IF WideChildren = {}
           THEN after.selected = state.selected /\ after.level_offset = state.level_offset
           ELSE /\ after.selected \in WideChildren
                /\ \A c \in WideChildren :
                      StackAt(flamegraph.stacks, c).total_count <= child.total_count
                /\ after.level_offset =
                      IF DepthInViewport(state, child.level) THEN state.level_offset
                      ELSE state.level_offset + 1

\* two wide children of different counts, and the chosen one is below the viewport
C28_Witness ==
    /\ AtFlameGraphKey
    /\ \E c, d \in WideChildren :
          StackAt(flamegraph.stacks, c).total_count
            < StackAt(flamegraph.stacks, d).total_count
    /\ to_child_stack(Cur).state.level_offset = state.level_offset + 1

----------------------------------------------------------------------------
(* Claims about the width test, checked under Spec *)

\* one sequence begins the other
IsPrefix(p, q) == Len(p) <= Len(q) /\ SubSeq(q, 1, Len(p)) = p

\* the stack is the zoom target, above it or below it in the current tree
OnZoomLine(id) ==
    LET target == PathOf(flamegraph, Unwrap(state.zoom).stack_id)
    IN IsPrefix(PathOf(flamegraph, id), target) \/ IsPrefix(target, PathOf(flamegraph, id))

\* the magnification of the zoom: the whole tree over the zoom target
Magnification ==
    IF IsSome(state.zoom)
    THEN [n |-> total_count(flamegraph),
          d |-> StackAt(flamegraph.stacks, Unwrap(state.zoom).stack_id).total_count]
    ELSE [n |-> 1, d |-> 1]

\* width_factor * viewport_width * effective_zoom >= 1.0
ProductAtLeastOne(id) ==
    LET width_factor == StackAt(flamegraph.stacks, id).width_factor
    IN /\ width_factor.k = "fin"
       /\ Magnification.d > 0
       /\ width_factor.n * Unwrap(state.frame_width) * Magnification.n
             >= width_factor.d * Magnification.d

\* C30: a node is visibly wide exactly when width_factor * viewport_width *
\* effective_zoom >= 1.0, with the zoom's magnification for the nodes above
\* and below the zoom target; under a zoom every other node is not visibly
\* wide, whatever its width.
C30_VisiblyWide ==
    IsSome(state.frame_width) =>
        \A id \in 0..(Len(flamegraph.stacks) - 1) :
            is_stack_visibly_wide(Cur, StackAt(flamegraph.stacks, id), None)
              <=> /\ ProductAtLeastOne(id)
                  /\ IsSome(state.zoom) => OnZoomLine(id)

\* under a zoom a node beside the zoom target has the width and is left out,
\* and a node on the zoom's line is wide by the magnification only
C30_Witness ==
    /\ IsSome(state.frame_width)
    /\ IsSome(state.zoom)
    /\ \E id \in 0..(Len(flamegraph.stacks) - 1) :
          /\ ProductAtLeastOne(id)
          /\ ~OnZoomLine(id)
          /\ ~is_stack_visibly_wide(Cur, StackAt(flamegraph.stacks, id), None)
    /\ \E id \in 0..(Len(flamegraph.stacks) - 1) :
          /\ OnZoomLine(id)
          /\ StackAt(flamegraph.stacks, id).width_factor.n * Unwrap(state.frame_width)
                < StackAt(flamegraph.stacks, id).width_factor.d
          /\ is_stack_visibly_wide(Cur, StackAt(flamegraph.stacks, id), None)

----------------------------------------------------------------------------
(* Claims about the selection after a scroll, checked under Spec *)

\* the views the four scroll commands give
ScrollResults == {page_down(Cur), page_up(Cur), scroll_top(Cur), scroll_bottom(Cur)}

\* the visibly wide stacks of a view at a depth
WideAtDepth(v, depth) ==
    {id \in 0..(Len(v.flamegraph.stacks) - 1) :
        /\ StackAt(v.flamegraph.stacks, id).level = depth
        /\ is_stack_visibly_wide(v, StackAt(v.flamegraph.stacks, id), None)}

\* the stack is the first visibly wide one, in level order, at the top depth
FirstWideAtTop(v, id) ==
    /\ id \in WideAtDepth(v, v.state.level_offset)
    /\ \A other \in WideAtDepth(v, v.state.level_offset) \ {id} :
          ComesBefore(v.flamegraph, id, other)

\* the selected stack was in the new viewport, and is still selected
SelectionKept(after) ==
    /\ DepthInViewport(after.state, StackAt(flamegraph.stacks, state.selected).level)
    /\ after.state.selected = state.selected

\* the selected stack was outside the new viewport
SelectionOutside(after) ==
    ~DepthInViewport(after.state, StackAt(flamegraph.stacks, state.selected).level)

\* C31: after page_down, page_up, scroll_top and scroll_bottom, a selected node
\* whose depth is outside the new viewport gives way to the first visibly wide
\* node, in level order, at the new top depth; one inside stays selected.
C31_ReselectedAtTop ==
    AtFlameGraphKey =>
        \A after \in ScrollResults :
            \/ SelectionKept(after)
            \/ SelectionOutside(after) /\ FirstWideAtTop(after, after.state.selected)

\* C31 as the code has it: with no visibly wide node at the new top depth
\* the selection stays where it was, outside the viewport.
C31_ReselectedWhenTopHasWide ==
    AtFlameGraphKey =>
        \A after \in ScrollResults :
            \/ SelectionKept(after)
            \/ SelectionOutside(after) /\ FirstWideAtTop(after, after.state.selected)
            \/ /\ SelectionOutside(after)
               /\ WideAtDepth(after, after.state.level_offset) = {}
               /\ after.state.selected = state.selected

----------------------------------------------------------------------------
(* Claims about the keys of the search input, checked under SpecView *)

\* no stack is flagged and no coverage is kept
NoHits(fg) ==
    /\ fg.hits = None
    /\ \A id \in NodeIds(fg) : ~StackAt(fg.stacks, id).hit

\* C32: Enter on an empty search input removes an active manual pattern, with
\* all hit flags and the coverage, and leaves an automatic pattern or no
\* pattern as it is; Esc changes nothing of the search; both close the input.
C32_EmptySubmitAndEsc ==
    IsSome(Given("input_key")) =>
        LET r == Unwrap(Given("input_key"))
        IN /\ r.after.input_buffer = None
           /\ r.after_without.input_buffer = None
           /\ r.after_without.view = r.without
           /\ r.after.message = transient_message
           /\ IF r.key = "Enter" /\ ManualPatternActive
              THEN /\ r.after.view.state = [state EXCEPT !.search_pattern = None]
                   /\ NoHits(r.after.view.flamegraph)
                   /\ r.after.view.flamegraph = clear_hits(flamegraph)
              ELSE r.after.view = Cur

\* Enter on an empty input removed a manual pattern that had flagged a stack
C32_Witness ==
    /\ IsSome(Given("input_key"))
    /\ Unwrap(Given("input_key")).key = "Enter"
    /\ ManualPatternActive
    /\ ~NoHits(flamegraph)
    /\ Unwrap(Given("input_key")).after.view.state.search_pattern = None

\* Enter on an empty input left an automatic pattern and its flags
C32_WitnessAuto ==
    /\ IsSome(Given("input_key"))
    /\ Unwrap(Given("input_key")).key = "Enter"
    /\ IsSome(state.search_pattern)
    /\ ~ManualPatternActive
    /\ ~NoHits(Unwrap(Given("input_key")).after.view.flamegraph)

----------------------------------------------------------------------------
(* Claims about the automatic pattern, checked under Spec *)

\* an automatic pattern of a view is the short name of its selected stack
AutoPatternNamesSelected(v) ==
    (IsSome(v.state.search_pattern) /\ ~Unwrap(v.state.search_pattern).is_manual) =>
        Some(Unwrap(v.state.search_pattern).pattern)
          = get_stack_short_name(v.flamegraph, v.state.selected)

\* C33: in every reachable state with an automatic pattern active, the
\* pattern is the short name of the selected node.
C33_AutoPatternFollowsSelection == AutoPatternNamesSelected(Cur)

\* the views the commands that move the cursor by select_id give
CursorMoves ==
    {to_child_stack(Cur), to_parent_stack(Cur), to_next_sibling(Cur),
     to_previous_sibling(Cur), to_next_search_result(Cur),
     to_previous_search_result(Cur), unset_zoom(Cur)}

\* C33 as the code has it: the automatic pattern follows the cursor in the
\* commands that move it with select_id, not in the reselection after a
\* scroll or a draw, nor in a replacement of the tree.
C33_AutoPatternFollowsCursorMoves ==
    AtFlameGraphKey =>
        \A after \in CursorMoves :
            after.state.selected # state.selected => AutoPatternNamesSelected(after)

----------------------------------------------------------------------------
(* Claims about the scroll offset, checked under Spec *)

\* the scroll offset of a view lies in [0, max(0, num_visible_levels - viewport_height)]
OffsetInVisibleRange(v) ==
    0 <= v.state.level_offset /\ v.state.level_offset <= VisibleBottom(v)

\* C34: in every reachable state the scroll offset lies in
\* [0, max(0, num_visible_levels - viewport_height)] for the tree shown and the
\* current zoom.
C34_ScrollOffsetInVisibleRange ==
    IsSome(state.frame_height) => OffsetInVisibleRange(Cur)

\* C34 as the code has it: the offset is in the range right after page_down,
\* scroll_bottom, scroll_top and reset; a draw, a zoom change, to_child and a
\* replacement of the tree leave or put it where the range has ended.
C34_ScrollOffsetInRangeAfterScroll ==
    AtFlameGraphKey =>
        \A after \in {page_down(Cur), scroll_bottom(Cur), scroll_top(Cur), reset(Cur)} :
            OffsetInVisibleRange(after)

----------------------------------------------------------------------------
(* Claims about the selection after a render, checked under Spec *)

\* the selected stack's depth lies in the viewport
SelectedInViewport(v) ==
    DepthInViewport(v.state, StackAt(v.flamegraph.stacks, v.state.selected).level)

\* C35: after every render step (set_frame_height, then set_frame_width) the
\* selected node's depth lies inside [level_offset, level_offset + frame_height - 1].
C35_SelectedInViewportAfterRender ==
    pc = "event" => SelectedInViewport(Cur)

\* the view as set_frame_height sees it: the new height, the width of the
\* render before
AtNewHeight == View(flamegraph, [state EXCEPT !.frame_height = state'.frame_height])

\* C35 as the code has it: a render leaves the selection outside the viewport
\* only when no stack at the top depth was visibly wide at the old width.
C35_SelectedInViewportOrNoneWide ==
    [][(pc = "draw" /\ pc' = "event") =>
          \/ SelectedInViewport(View(flamegraph', state'))
          \/ /\ WideAtDepth(AtNewHeight, state.level_offset) = {}
             /\ state'.selected = state.selected]_vars

----------------------------------------------------------------------------
(* Claims about unsigned arithmetic, checked under SpecResize *)

\* C36: no unsigned subtraction of the scroll and viewport arithmetic
\* overflows in a reachable state: to_parent never takes one from an offset
\* of 0, and level_offset + frame_height - 1 is never computed from 0 and 0.
C36_NoUnderflow == hist.op # "underflow"

\* C36 as the code has it: to_parent never takes one from an offset of 0 (with
\* a width of at least one cell), and the viewport edge overflows only with
\* a viewport height of 0.
C36_UnderflowOnlyWithoutRows ==
    /\ pc = "event" => ~parent_step_underflows(Cur)
    /\ hist.op = "underflow" => state.frame_height = Some(0) /\ state.level_offset = 0

----------------------------------------------------------------------------
(* Claims about the table cursor, checked under SpecTable *)

\* the table cursor is on a row of the table of fg (row 0 of an empty table)
CursorInTable(fg, st) == st.table_state.selected <= LastRow(fg)

\* C37: in every reachable state the table cursor refers to an existing row
\* of the current table (cursor <= max(0, rowCount - 1)), also after a live
\* replacement by a tree whose table has fewer rows.
C37_CursorOnExistingRow == CursorInTable(flamegraph, state)

\* C37 as the code has it: a step that keeps the tree keeps the cursor in the
\* table; only a replacement can leave it past the last row.
C37_CursorInTableUntilReplaced ==
    [][flamegraph' = flamegraph /\ CursorInTable(flamegraph, state)
          => CursorInTable(flamegraph', state')]_vars

----------------------------------------------------------------------------
(* Claims about the order of the trees shown, checked under SpecLive *)

\* C38: the trees swapped into the view come in strictly increasing order of
\* the payloads they were parsed from: no swap brings a tree of an older
\* payload than the one displayed, and no parsed tree is swapped in twice.
C38_SwapsInPayloadOrder ==
    [][(hist'.op = "replace" \/ live'.shown # live.shown) => live'.shown > live.shown]_vars

\* a second tree has been swapped in since the last tick
C38_Witness ==
    /\ hist.op = "replace"
    /\ live.swaps = 2
    /\ live.shown >= 2

----------------------------------------------------------------------------
(* Liveness of the live pipeline, checked under SpecLiveFair *)

\* every payload sent has been received and delivered, and the view shows the
\* tree of the payload delivered last (in stream mode the tree of all the
\* lines accumulated)
LastPayloadShown ==
    /\ rx = <<>>
    /\ ~has_new_data
    /\ live.shown = live.delivered
    /\ mode = "stream" => flamegraph = from_string(JoinLines(accumulated_stacks), TRUE)

\* C39: if the view is not frozen (from some point on) and the producer
\* delivers a payload and then nothing further, then under fair scheduling of
\* the parser and of tick events, in a program that is not quit and whose
\* sampler does not fail, the displayed tree eventually is and stays the tree parsed from that last payload (in
\* stream mode from the accumulation of all payloads received).
C39_LastPayloadEventuallyShown ==
    <>[](~state.freeze) => <>[]LastPayloadShown

\* the tree of the second or a later payload has just been swapped in, with
\* nothing left on the way
C39_Witness ==
    /\ hist.op = "replace"
    /\ ~state.freeze
    /\ live.delivered >= 2
    /\ live.produced = live.delivered
    /\ LastPayloadShown

----------------------------------------------------------------------------
(* Claims about the renderer, checked under SpecView *)

\* navigation and renderer agree on every stack of the view
NavigationAgrees(v) ==
    \A id \in 0..(Len(v.flamegraph.stacks) - 1) :
        is_stack_visibly_wide(v, StackAt(v.flamegraph.stacks, id), None)
            <=> rendered_width(v, id) >= 1

\* the zoom target, if any, has samples
ZoomHasSamples(v) ==
    IsSome(v.state.zoom) =>
        StackAt(v.flamegraph.stacks, Unwrap(v.state.zoom).stack_id).total_count > 0

\* C40: for every tree, viewport width and zoom state a stack is visibly wide
\* for the navigation exactly when the renderer's budget rule (the children
\* share the parent's budget by total_count; under a zoom the child on the
\* way to the zoom target takes it all) gives it at least one cell.
C40_NavigationAgreesWithRenderer ==
    IsSome(Given("render")) =>
        /\ NavigationAgrees(Cur)
        /\ NavigationAgrees(Unwrap(Given("render")).after)

\* C40 as the code has it: they agree when the zoom target has samples
C40_AgreesWhenZoomHasSamples ==
    IsSome(Given("render")) =>
        /\ ZoomHasSamples(Cur) => NavigationAgrees(Cur)
        /\ ZoomHasSamples(Unwrap(Given("render")).after)
              => NavigationAgrees(Unwrap(Given("render")).after)

====
